---- MODULE Spec2Model ----
(***************************************************************************)
(* TelegramMailBridge: the mail ingestion -> storage -> routing pipeline.   *)
(*                                                                         *)
(* AdvancedSMTPHandler.handle_message (services/smtp_handler.py) runs once *)
(* per inbound message on the event loop that aiosmtpd's Controller starts *)
(* in its own thread (main.py, smtp_controller.start()); the /set_target   *)
(* command handler (services/telegram_handler.py) runs on the main loop.   *)
(* Both share default_recipients and target_mapping without any lock.      *)
(* RedisStorage (core/redis_storage.py) keeps the raw and metadata keys    *)
(* with a TTL plus the two indexes.                                        *)
(*                                                                         *)
(* Python's None is the string "None"; a message id is the ordinal of the  *)
(* message (the timestamp/uuid suffix of msg_id is taken as unique here).  *)
(***************************************************************************)
EXTENDS Integers, Sequences, FiniteSets, TLC

None == "None"

\* ---- bounds of the model ----
\* message slots; each specification bounds how many of them it uses
MaxMsgs == 2
\* messages handed to handle_message in the pipeline specifications
MaxArrivals == 1
MaxTime == 3
\* message_ttl, scaled from the 604800 s default to clock ticks
ModelTTL == 2
\* disconnect() calls on one RedisStorage
MaxCalls == 2

Msgs == 1..MaxMsgs

ChatIds == {"111", "222"}
CustomIds == {"999", "", "abc"}
MapDomains == {"x.com", "X.COM", "bob.t.me"}

\* A To header, already split at '@' ("a@X.COM" is <<"a", "X.COM">>).
ToSet == {<<"nobody">>, <<"a", "X.COM">>, <<"bob", "bob.t.me">>}

VARIABLES
    default_recipients,   \* AdvancedSMTPHandler.default_recipients
    target_mapping,       \* AdvancedSMTPHandler.target_mapping
    cf_manager,           \* AdvancedSMTPHandler.cf_manager: "None" or "client"
    message_counter,      \* AdvancedSMTPHandler.message_counter
    lastTarget,           \* the me/channel/group command whose update was applied last
    pc,                   \* per message: position inside handle_message
    inbox,                \* per message: the message handed to handle_message
    metadata,             \* per message: the metadata dict (None before extraction)
    storeRet,             \* per message: what store_email returned (None before)
    route,                \* per message: (recipient_type, recipient_id) of _determine_recipient
    okRoutes,             \* per message: the decisions of the configurations that existed
                          \* while _determine_recipient was running
    snapshotOk,           \* per message: the routing decision is one of okRoutes
    notif,                \* per message: outcome of _send_telegram_notification
    prov,                 \* per message: outcome of _handle_dns_integration
    resp,                 \* per message: the string handle_message returned
    sent,                 \* calls tg_client.send_message made so far
    now,                  \* the store's clock
    rawKey,               \* email:raw:{id}   -> pickled payload or None
    metaKey,              \* email:meta:{id}  -> JSON text or None
    rawExp,               \* expiry time of email:raw:{id}
    metaExp,              \* expiry time of email:meta:{id}
    domainIndex,          \* index:domain:{d} -> set of ids
    tsIndex,              \* index:timestamp  -> id -> score (None: not a member)
    reply,                \* the last retrieve_email or search_emails call (for a search, args
                          \* is domain, limit, offset and the ids whose read raised) and
                          \* its result
    again,                \* the last retrieve_email call completed and repeated a completed
                          \* retrieve_email that found the same id, no expiry in between
    storedAt,             \* per id: when the last completed write batch ran (-1: never)
    dnsPc,                \* position inside validate_domain_mx: <<stage, loop index>>
    report,               \* the report validate_domain_mx is building
    lookups,              \* the resolver.resolve calls issued so far, in order
    resolver,             \* what the resolver answers to each lookup of this call
    swept,                \* whether the sweep of the last store_email call that got to it
                          \* ran ("ran") or raised inside _cleanup_old_indexes ("failed")
    cfCall,               \* the frame of the running ensure_tmail_integration call
    cfRequests,           \* the requests that call sent to the provider so far, in order
    provider,             \* what the provider does on each request of this call
    idFrame,              \* per message: msg_id and where handle_message has used it
    emailKeys,            \* msg_id -> what email:raw:{msg_id} and email:meta:{msg_id} hold
    email,                \* the parsed message _extract_metadata is given
    extracted,            \* the dict _extract_metadata returned
    text,                 \* the lines _format_notification returned
    redis,                \* RedisStorage.redis: "None" or the state of the client object
    closes,               \* the disconnect() calls made so far: handle before, after, raised
    app,                  \* TelegramMailBridge: is_running and the component attributes
    lifePc,               \* position inside TelegramMailBridge.run
    released,             \* per component: the release calls shutdown has made on it
    cmdReply              \* the last /set_target command: its arguments and the reply sent

cfgVars == <<default_recipients, target_mapping, lastTarget>>
msgVars == <<pc, inbox, metadata, storeRet, route, okRoutes, snapshotOk, notif, prov,
             resp, sent, message_counter>>
storeVars == <<rawKey, metaKey, rawExp, metaExp, domainIndex, tsIndex>>
histVars == <<storedAt, swept>>
queryVars == <<reply, again>>
\* what neither handle_message nor the store nor /set_target writes
dnsVars == <<dnsPc, report, lookups, resolver>>
cfVars == <<cfCall, cfRequests, provider>>
idVars == <<idFrame, emailKeys>>
fmtVars == <<email, extracted, text>>
lifeVars == <<redis, closes, app, lifePc, released, cmdReply>>
envVars == <<cf_manager, dnsVars, cfVars, idVars, fmtVars, lifeVars>>
vars == <<cfgVars, msgVars, storeVars, histVars, queryVars, now, envVars>>

\* ---- string helpers ----
\* str.lower() on the tokens of the model
Lower(s) ==
    CASE s = "X.COM" -> "x.com"
      [] s = "ME" -> "me"
      [] OTHER -> s

\* str.strip() on the tokens of the model
Strip(s) == IF s = "x.com " THEN "x.com" ELSE s

\* Python truthiness of a value that is None or a string
Truthy(v) == v /= None /\ v /= ""

\* dict.update(u): every key of u is written in one call
DictUpdate(d, u) ==
    [k \in DOMAIN d \cup DOMAIN u |-> IF k \in DOMAIN u THEN u[k] ELSE d[k]]

\* the dns_report of a metadata dict before validation
NoReport == [domain |-> "", error |-> ""]

\* ---- Message Store: serialisation (core/redis_storage.py) ----
\* pickle.dumps / pickle.loads of the raw bytes
PickleDumps(raw) == <<"pickle", raw>>
PickleLoads(blob) == blob[2]

\* json.dumps / json.loads of a DNS report and of the metadata: every value is
\* written with its JSON type ("s" string, "n" number, "b" boolean).
JsonDumpsReport(r) ==
    IF "error" \in DOMAIN r
    THEN <<<<"domain", "s", r.domain>>, <<"error", "s", r.error>>>>
    ELSE <<<<"domain", "s", r.domain>>, <<"mx_records", "n", r.mx_records>>,
           <<"has_mx", "b", r.has_mx>>, <<"errors", "n", r.errors>>>>

JsonLoadsReport(j) ==
    IF Len(j) = 2
    THEN [domain |-> j[1][3], error |-> j[2][3]]
    ELSE [domain |-> j[1][3], mx_records |-> j[2][3], has_mx |-> j[3][3], errors |-> j[4][3]]

JsonDumps(md) ==
    <<<<"message_id", "n", md.message_id>>,
      <<"to", "s", md.to>>,
      <<"recipient_domain", "s", md.recipient_domain>>,
      <<"dns_report", "o", JsonDumpsReport(md.dns_report)>>>>

\* JsonLoads that loses the nested report
JsonLoadsLossy(j) ==
    [message_id |-> j[1][3], to |-> j[2][3], recipient_domain |-> j[3][3],
     dns_report |-> NoReport]

JsonLoads(j) ==
    [message_id |-> j[1][3], to |-> j[2][3], recipient_domain |-> j[3][3],
     dns_report |-> JsonLoadsReport(j[4][3])]

\* ---- Metadata Extractor (services/smtp_handler.py) ----
\* _extract_domain: '@' in address ? address.split('@')[1].strip().lower() : 'unknown'
ExtractDomain(to) == IF Len(to) >= 2 THEN Lower(Strip(to[2])) ELSE "unknown"

NoMeta == [message_id |-> 0, to |-> <<>>, recipient_domain |-> "", dns_report |-> NoReport]
NoMsg == [raw |-> "", to |-> <<>>, ok |-> TRUE]
NoRoute == <<"", "">>

\* _extract_metadata (the DNS report is attached later)
ExtractMetadata(msg, msg_id) ==
    [message_id |-> msg_id, to |-> msg.to, recipient_domain |-> ExtractDomain(msg.to),
     dns_report |-> NoReport]

\* ---- Routing Resolver ----
\* _determine_recipient, as one call on one configuration
DetermineRecipient(md, mapping, recips) ==
    IF md.recipient_domain \in DOMAIN mapping
    THEN <<"custom", mapping[md.recipient_domain]>>
    ELSE IF Truthy(recips.channel) THEN <<"channel", recips.channel>>
    ELSE IF Truthy(recips.group) THEN <<"group", recips.group>>
    ELSE <<"me", "self">>

\* ---- /set_target (services/telegram_handler.py) ----
\* message.text.split()[1:]: n arguments; the second one is key, or key=val when eq.
NumericIds == ChatIds \cup {"999"}
CmdArgs ==
    {[n |-> 0, type |-> "", key |-> "", eq |-> FALSE, val |-> ""]}
    \cup {[n |-> 1, type |-> t, key |-> "", eq |-> FALSE, val |-> ""] :
             t \in {"me", "ME", "channel", "group", "custom", "bogus"}}
    \cup {[n |-> 2, type |-> t, key |-> k, eq |-> FALSE, val |-> ""] :
             t \in {"me", "channel", "group", "custom"}, k \in ChatIds \cup {"abc"}}
    \cup {[n |-> 2, type |-> "custom", key |-> d, eq |-> TRUE, val |-> v] :
             d \in MapDomains, v \in CustomIds}

NoCommand == [cmd |-> [n |-> 0, type |-> "", key |-> "", eq |-> FALSE, val |-> ""],
              chatOk |-> TRUE, text |-> "none"]

\* the update of default_recipients for `/set_target me`
UpdateMe(recips) ==
    DictUpdate(recips, [me |-> "self", channel |-> None, group |-> None])

\* UpdateChat that sets the new target and forgets to clear the others
UpdateChatKeepsOthers(recips, target_type, target_id) ==
    DictUpdate(recips,
        IF target_type = "channel" THEN [channel |-> target_id] ELSE [group |-> target_id])

\* the update of default_recipients for `/set_target channel|group <id>`
UpdateChat(recips, target_type, target_id) ==
    DictUpdate(recips,
        IF target_type = "channel"
        THEN [me |-> None, channel |-> target_id, group |-> None]
        ELSE [me |-> None, group |-> target_id, channel |-> None])

\* target_mapping[domain] = chat_id
UpdateMapping(mapping, domain, chat_id) ==
    [d \in DOMAIN mapping \cup {domain} |-> IF d = domain THEN chat_id ELSE mapping[d]]

\* CmdApplies with the update of the channel or group placed before the chat lookup
CmdAppliesBeforeLookup(cmd, chatOk) ==
    /\ cmd.n >= 1
    /\ LET t == Lower(cmd.type) IN
         \/ t = "me"
         \/ /\ t \in {"channel", "group"}
            /\ cmd.n >= 2
         \/ /\ t = "custom"
            /\ cmd.n >= 2
            /\ cmd.eq

\* whether the command reaches its update (every early return and caught exception
\* leaves the configuration alone); chatOk: client.get_chat returned
CmdApplies(cmd, chatOk) ==
    /\ cmd.n >= 1
    /\ LET t == Lower(cmd.type) IN
         \/ t = "me"
         \/ /\ t \in {"channel", "group"}
            /\ cmd.n >= 2
            /\ ~cmd.eq /\ cmd.key \in NumericIds    \* int(target_id) does not raise
            /\ chatOk
         \/ /\ t = "custom"
            /\ cmd.n >= 2
            /\ cmd.eq

\* the reply_text call the command ends with
ReplyText(cmd, chatOk) ==
    LET t == Lower(cmd.type) IN
       IF cmd.n = 0 THEN "usage"
       ELSE IF t = "me" THEN "ok_me"
       ELSE IF t \in {"channel", "group"}
       THEN (IF cmd.n < 2 THEN "need_id"
             ELSE IF CmdApplies(cmd, chatOk) THEN "ok_chat" ELSE "error")
       ELSE IF t = "custom"
       THEN (IF cmd.n < 2 \/ ~cmd.eq THEN "format" ELSE "ok_custom")
       ELSE "unknown"

\* ---- DNS validator (core/dns_validator.py) ----
\* MX hosts an answer can name, A records a host can have
MaxMx == 2
MaxA == 2
\* `report['a_records'][:3]`
PtrLimit == 3

\* What the resolver does in one validate_domain_mx call. mx.kind: "answer" (mx.n hosts),
\* "noanswer" (NoAnswer / NXDOMAIN) or "fail" (any other exception: timeout, no
\* nameservers, network down). txt, ns, soa: the lookup answers. a[i]: the number of A
\* records of MX host i (0: the lookup raised). ptrFail: the A records whose PTR
\* lookup raises.
Resolvers ==
    {[mx |-> mx, txt |-> t, ns |-> n, soa |-> o, a |-> a, ptrFail |-> pf] :
        mx \in {[kind |-> "noanswer", n |-> 0], [kind |-> "fail", n |-> 0]},
        t \in BOOLEAN, n \in BOOLEAN, o \in BOOLEAN, a \in {<<>>},
        pf \in {{}}}
    \cup UNION {
        {[mx |-> [kind |-> "answer", n |-> k], txt |-> t, ns |-> n, soa |-> o, a |-> a,
          ptrFail |-> pf] :
            t \in BOOLEAN, n \in BOOLEAN, o \in BOOLEAN, a \in [1..k -> 0..MaxA],
            pf \in SUBSET (1..PtrLimit)} : k \in 1..MaxMx}

\* the report dict at the start of validate_domain_mx
NewReport(target) ==
    [domain |-> target, mx_records |-> <<>>, txt_records |-> <<>>, a_records |-> <<>>,
     ns_records |-> <<>>, soa_record |-> None, has_mx |-> FALSE, errors |-> <<>>]

NoResolver ==
    [mx |-> [kind |-> "noanswer", n |-> 0], txt |-> FALSE, ns |-> FALSE, soa |-> FALSE,
     a |-> <<>>, ptrFail |-> {}]

\* no validate_domain_mx call is running
DnsIdle ==
    /\ dnsPc = <<"idle", 0>>
    /\ report = NewReport("")
    /\ lookups = <<>>
    /\ resolver = NoResolver

DnsFrame ==
    UNCHANGED <<cfgVars, msgVars, storeVars, histVars, queryVars, now, cf_manager, resolver,
                cfVars, lifeVars, idVars, fmtVars>>

\* self.resolver.resolve(name, type): the call is recorded
Resolve(type, n) == Append(lookups, [type |-> type, n |-> n])

\* the PTR loop over all of report['a_records']
PtrPcAll(rep, j) ==
    IF j <= Len(rep.a_records) THEN <<"ptr", j>> ELSE <<"done", 0>>

\* `for a_record in report['a_records'][:3]:` at position j, or the end of the try block
PtrPc(rep, j) ==
    IF j <= Len(rep.a_records) /\ j <= PtrLimit THEN <<"ptr", j>> ELSE <<"done", 0>>

\* `for mx in report['mx_records']:` at position i, or the loop after it
APc(rep, i) ==
    IF i <= Len(rep.mx_records) THEN <<"a", i>> ELSE PtrPc(rep, 1)

\* validate_domain_mx(domain) up to the try block
ValidateDomainMx(domain) ==
    /\ dnsPc[1] = "idle"
    /\ report' = NewReport(IF domain = "" THEN "t.me" ELSE domain)
    /\ lookups' = <<>>
    /\ dnsPc' = <<"mx", 0>>
    /\ DnsFrame

\* GetMxRecords without the outer try/except of validate_domain_mx: the exception
\* _get_mx_records re-raises leaves the call
GetMxRecordsRaises ==
    /\ dnsPc[1] = "mx"
    /\ lookups' = Resolve("MX", 0)
    /\ CASE resolver.mx.kind = "answer" ->
              /\ report' = [report EXCEPT
                               !.mx_records = [i \in 1..resolver.mx.n |->
                                                  [host |-> i, resolved |-> "unset"]],
                               !.has_mx = resolver.mx.n > 0]
              /\ dnsPc' = <<"txt", 0>>
         [] resolver.mx.kind = "noanswer" ->
              /\ report' = [report EXCEPT !.mx_records = <<>>, !.has_mx = FALSE]
              /\ dnsPc' = <<"txt", 0>>
         [] OTHER ->
              /\ UNCHANGED report
              /\ dnsPc' = <<"raised", 0>>
    /\ DnsFrame

\* GetMxRecords setting has_mx whenever the MX lookup returned, records or not
GetMxRecordsAnswered ==
    /\ dnsPc[1] = "mx"
    /\ lookups' = Resolve("MX", 0)
    /\ CASE resolver.mx.kind = "answer" ->
              /\ report' = [report EXCEPT
                               !.mx_records = [i \in 1..resolver.mx.n |->
                                                  [host |-> i, resolved |-> "unset"]],
                               !.has_mx = TRUE]
              /\ dnsPc' = <<"txt", 0>>
         [] resolver.mx.kind = "noanswer" ->
              /\ report' = [report EXCEPT !.mx_records = <<>>, !.has_mx = TRUE]
              /\ dnsPc' = <<"txt", 0>>
         [] OTHER ->
              /\ report' = [report EXCEPT !.errors = Append(@, "critical")]
              /\ dnsPc' = <<"done", 0>>
    /\ DnsFrame

\* _get_mx_records and `report['has_mx'] = ...`; an exception other than NoAnswer and
\* NXDOMAIN is re-raised and lands in the except branch of validate_domain_mx
GetMxRecords ==
    /\ dnsPc[1] = "mx"
    /\ lookups' = Resolve("MX", 0)
    /\ CASE resolver.mx.kind = "answer" ->
              /\ report' = [report EXCEPT
                               !.mx_records = [i \in 1..resolver.mx.n |->
                                                  [host |-> i, resolved |-> "unset"]],
                               !.has_mx = resolver.mx.n > 0]
              /\ dnsPc' = <<"txt", 0>>
         [] resolver.mx.kind = "noanswer" ->
              /\ report' = [report EXCEPT !.mx_records = <<>>, !.has_mx = FALSE]
              /\ dnsPc' = <<"txt", 0>>
         [] OTHER ->
              /\ report' = [report EXCEPT !.errors = Append(@, "critical")]
              /\ dnsPc' = <<"done", 0>>
    /\ DnsFrame

\* _get_txt_records
GetTxtRecords ==
    /\ dnsPc[1] = "txt"
    /\ lookups' = Resolve("TXT", 0)
    /\ report' = [report EXCEPT !.txt_records = IF resolver.txt THEN <<"txt">> ELSE <<>>]
    /\ dnsPc' = <<"ns", 0>>
    /\ DnsFrame

\* _get_ns_records
GetNsRecords ==
    /\ dnsPc[1] = "ns"
    /\ lookups' = Resolve("NS", 0)
    /\ report' = [report EXCEPT !.ns_records = IF resolver.ns THEN <<"ns">> ELSE <<>>]
    /\ dnsPc' = <<"soa", 0>>
    /\ DnsFrame

\* _get_soa_record, then the first iteration of the MX loop if there is one
GetSoaRecord ==
    /\ dnsPc[1] = "soa"
    /\ lookups' = Resolve("SOA", 0)
    /\ report' = [report EXCEPT !.soa_record = IF resolver.soa THEN "soa" ELSE None]
    /\ dnsPc' = APc(report, 1)
    /\ DnsFrame

\* one iteration of the MX loop: _get_a_records(mx['host']), extend, mx['resolved']
GetARecords ==
    /\ dnsPc[1] = "a"
    /\ LET i == dnsPc[2]
           found == [k \in 1..resolver.a[i] |-> [host |-> i, ip |-> k, ptr |-> <<"unset">>]]
           rep == [report EXCEPT
                      !.a_records = @ \o found,
                      !.mx_records[i].resolved = IF Len(found) > 0 THEN "yes" ELSE "no"]
       IN  /\ lookups' = Resolve("A", i)
           /\ report' = rep
           /\ dnsPc' = APc(rep, i + 1)
    /\ DnsFrame

\* one iteration of the PTR loop: _get_ptr_records(a_record['ip'])
GetPtrRecords ==
    /\ dnsPc[1] = "ptr"
    /\ LET j == dnsPc[2] IN
          /\ lookups' = Resolve("PTR", j)
          /\ report' = [report EXCEPT
                           !.a_records[j].ptr = IF j \in resolver.ptrFail THEN <<>>
                                                ELSE <<"ptr">>]
          /\ dnsPc' = PtrPc(report, j + 1)
    /\ DnsFrame

\* ---- DNS provisioning (core/cf_dns_manager.py) ----
\* What the provider does on one request: "ok" (status 200, success true), "refused"
\* (another status), "nosuccess" (status 200, a body without a true success) or "raises"
\* (the HTTP client or response.json() raises).
ApiOutcomes == {"ok", "refused", "nosuccess", "raises"}

\* the provider's behaviour during one ensure_tmail_integration call, per request
Providers ==
    {[list |-> l, mx10 |-> a, mx20 |-> b, txt |-> t, cname |-> c] :
        l \in {"ok", "raises"}, a \in ApiOutcomes, b \in ApiOutcomes, t \in ApiOutcomes,
        c \in ApiOutcomes}

NoProvider == [list |-> "ok", mx10 |-> "ok", mx20 |-> "ok", txt |-> "ok", cname |-> "ok"]

\* the argument of ensure_tmail_integration: a username, with or without '@', or no
\* string at all
Usernames == {"bob", "@bob", None}

\* telegram_username.replace('@', '')
StripAt(u) == IF u = "@bob" THEN "bob" ELSE u

\* `mx_servers`
MxServers == <<[priority |-> 10, target |-> "mx1"], [priority |-> 20, target |-> "mx2"]>>

\* the value create_mx_record returns: True only for status 200 with success, False
\* otherwise and from its except branch
CreateMxResult(outcome) == IF outcome = "ok" THEN "True" ELSE "False"

\* the value create_txt_record and create_cname_record return:
\* `response.status_code == 200 and response.json().get('success')`
CreateResult(outcome) ==
    CASE outcome = "ok" -> "True"
      [] outcome = "nosuccess" -> "None"
      [] OTHER -> "False"

\* the frame of ensure_tmail_integration when no call is running
NoCfCall ==
    [pc |-> "idle", username |-> None, subdomain |-> <<>>, mx_results |-> <<>>,
     txt_success |-> "", raised |-> FALSE, result |-> [none |-> TRUE]]

\* ---- the application's components and the store's connection ----
\* the components shutdown releases, in the order it releases them
Components == <<"smtp_controller", "tg_client", "cf_manager", "redis_storage">>

ComponentSet == {Components[i] : i \in 1..Len(Components)}

\* the application serving: initialize_components returned True, RedisStorage has
\* connected
LifeIdle ==
    /\ redis = "connected"
    /\ closes = <<>>
    /\ app = [is_running |-> TRUE, smtp_controller |-> "set", tg_client |-> "set",
              cf_manager |-> "set", redis_storage |-> "set"]
    /\ lifePc = "serving"
    /\ released = [c \in ComponentSet |-> 0]
    /\ cmdReply = NoCommand

CfIdle ==
    /\ cfCall = NoCfCall
    /\ cfRequests = <<>>
    /\ provider = NoProvider

CfFrame ==
    UNCHANGED <<cfgVars, msgVars, storeVars, histVars, queryVars, now, cf_manager, dnsVars,
                provider, idVars, fmtVars, lifeVars>>

\* ensure_tmail_integration(telegram_username), entering the try block
EnsureTmailIntegration(username) ==
    /\ cfCall.pc = "idle"
    /\ cfCall' = [NoCfCall EXCEPT !.pc = "list", !.username = username]
    /\ cfRequests' = <<>>
    /\ CfFrame

\* `existing_records = await self.get_dns_records()` (its own except returns []), then
\* the subdomain: `.replace` on something that is no string raises, and the except
\* branch of ensure_tmail_integration returns {'error': str(e)}
GetDnsRecords ==
    /\ cfCall.pc = "list"
    /\ cfRequests' = Append(cfRequests, [type |-> "LIST", priority |-> 0])
    /\ cfCall' = IF cfCall.username = None
                 THEN [cfCall EXCEPT !.pc = "done", !.raised = TRUE,
                                     !.result = [error |-> "no replace"]]
                 ELSE [cfCall EXCEPT !.pc = "mx",
                                     !.subdomain = <<"telegram", StripAt(cfCall.username)>>]
    /\ CfFrame

\* CreateMxRecord with create_mx_record letting the exception of the HTTP client out
CreateMxRecordRaises ==
    /\ cfCall.pc = "mx"
    /\ LET i == Len(cfCall.mx_results) + 1
           mx == MxServers[i]
           outcome == IF i = 1 THEN provider.mx10 ELSE provider.mx20
       IN  /\ cfRequests' = Append(cfRequests, [type |-> "MX", priority |-> mx.priority])
           /\ cfCall' =
                 IF outcome = "raises"
                 THEN [cfCall EXCEPT !.pc = "done", !.raised = TRUE,
                                     !.result = [error |-> "http"]]
                 ELSE [cfCall EXCEPT
                          !.mx_results = Append(@, [server |-> mx.target,
                                                    priority |-> mx.priority,
                                                    success |-> CreateMxResult(outcome)]),
                          !.pc = IF i = Len(MxServers) THEN "txt" ELSE "mx"]
    /\ CfFrame

\* one iteration of `for mx in mx_servers:`: create_mx_record and the entry of mx_results
CreateMxRecord ==
    /\ cfCall.pc = "mx"
    /\ LET i == Len(cfCall.mx_results) + 1
           mx == MxServers[i]
           outcome == IF i = 1 THEN provider.mx10 ELSE provider.mx20
       IN  /\ cfRequests' = Append(cfRequests, [type |-> "MX", priority |-> mx.priority])
           /\ cfCall' = [cfCall EXCEPT
                            !.mx_results = Append(@, [server |-> mx.target,
                                                      priority |-> mx.priority,
                                                      success |-> CreateMxResult(outcome)]),
                            !.pc = IF i = Len(MxServers) THEN "txt" ELSE "mx"]
    /\ CfFrame

\* `txt_success = await self.create_txt_record(...)`
CreateTxtRecord ==
    /\ cfCall.pc = "txt"
    /\ cfRequests' = Append(cfRequests, [type |-> "TXT", priority |-> 0])
    /\ cfCall' = [cfCall EXCEPT !.txt_success = CreateResult(provider.txt), !.pc = "cname"]
    /\ CfFrame

\* `cname_success = await self.create_cname_record(...)` and the returned summary
CreateCnameRecord ==
    /\ cfCall.pc = "cname"
    /\ cfRequests' = Append(cfRequests, [type |-> "CNAME", priority |-> 0])
    /\ cfCall' = [cfCall EXCEPT
                     !.pc = "done",
                     !.result = [telegram_username |-> cfCall.username,
                                 subdomain |-> cfCall.subdomain,
                                 mx_records |-> cfCall.mx_results,
                                 txt_record |-> [success |-> cfCall.txt_success],
                                 cname_record |-> [success |-> CreateResult(provider.cname)],
                                 email_address |-> <<cfCall.username, "domain">>]]
    /\ CfFrame

\* ---- message ids (services/smtp_handler.py) ----
\* values of uuid.uuid4().hex[:8], scaled from 2^32
MaxSuffix == 2

\* msg_id without the timestamp part
MsgIdSuffixOnly(t, suffix) == <<0, suffix>>

\* f"msg_{datetime.utcnow().strftime('%Y%m%d_%H%M%S')}_{uuid.uuid4().hex[:8]}": the clock
\* to the second and the random suffix, both of fixed width
MsgId(t, suffix) == <<t, suffix>>

\* what handle_message has done with its msg_id: the id, the clock when it was made,
\* the id shown in the notification and the response text (<<>>: not yet)
NoIdFrame == [msg_id |-> <<>>, at |-> -1, shown |-> <<>>, counter |-> 0, answer |-> <<>>]

IdIdle ==
    /\ idFrame = [m \in Msgs |-> NoIdFrame]
    /\ emailKeys = <<>>

\* str(e) of the exception that parsing the message raised
ErrorText(msg) == <<"error", msg.raw>>

\* SETEX email:raw:{id} and SETEX email:meta:{id}: what was there is replaced
SetEx(store, id, value) ==
    [i \in DOMAIN store \cup {id} |-> IF i = id THEN value ELSE store[i]]

\* ---- metadata extraction and the notification text (services/smtp_handler.py) ----
\* headers of one message in the model
MaxHeaders == 2

\* Header values are kept split at '@', like the To header: "a@x.com, b@y.com" is
\* <<"a", "x.com, b", "y.com">>, a value without '@' is one segment.
Addresses == {<<"nobody">>, <<"a", "X.COM">>, <<"a", "x.com ">>, <<"a", "x.com, b", "y.com">>}

HeaderPool ==
    {<<"To", a>> : a \in Addresses}
    \cup {<<"Received", <<"h1">>>>, <<"Received", <<"h2">>>>, <<"Subject", <<"hi">>>>}

\* the parsed messages: the headers in the order of the raw message, and the text body
Emails ==
    {[headers |-> h, body |-> b] :
        h \in UNION {[1..n -> HeaderPool] : n \in 0..MaxHeaders}, b \in {"", "hello"}}

NoEmail == [headers |-> <<>>, body |-> ""]
NoExtract == [none |-> TRUE]

FmtIdle ==
    /\ email = NoEmail
    /\ extracted = NoExtract
    /\ text = <<>>

\* email_msg.get(name, default): the value of the first header of that name
Get(email_msg, name, default) ==
    LET at == {i \in 1..Len(email_msg.headers) : email_msg.headers[i][1] = name}
    IN  IF at = {} THEN default
        ELSE email_msg.headers[CHOOSE i \in at : \A j \in at : i <= j][2]

\* dict(pairs): a key that comes again keeps its place and takes the later value
RECURSIVE Dict(_)
Dict(pairs) ==
    IF pairs = <<>> THEN <<>>
    ELSE LET n == Len(pairs)
             front == Dict(SubSeq(pairs, 1, n - 1))
             last == pairs[n]
             at == {i \in 1..Len(front) : front[i][1] = last[1]}
         IN  IF at = {} THEN Append(front, last)
             ELSE [i \in 1..Len(front) |-> IF i \in at THEN last ELSE front[i]]

\* _extract_metadata with the fields the notification and the store use
ExtractMetadataDict(email_msg, msg_id) ==
    [message_id |-> msg_id,
     to |-> Get(email_msg, "To", <<"">>),
     subject |-> Get(email_msg, "Subject", <<"">>),
     recipient_domain |-> ExtractDomain(Get(email_msg, "To", <<"">>)),
     headers |-> Dict(email_msg.headers)]

\* _format_notification: the lines of the text, in order. The DNS line is there only
\* when the report has a non-empty mx_records; the preview only for a non-empty body.
FormatNotification(msg_id, counter, email_msg, md) ==
    LET dns_report == md.dns_report
        dns == IF "mx_records" \in DOMAIN dns_report /\ dns_report.mx_records > 0
               THEN <<<<"dns", IF dns_report.has_mx THEN "ok" ELSE "warn",
                        dns_report.mx_records>>>>
               ELSE <<>>
        preview == IF email_msg.body /= "" THEN <<<<"preview", email_msg.body, "...">>>>
                   ELSE <<>>
    IN  <<<<"title", counter>>, <<"id", msg_id>>, <<"to", md.to>>, <<"subject", md.subject>>>>
        \o dns \o preview \o <<<<"commands", msg_id>>>>

\* ---- state after construction ----
EmptyMap == [d \in {} |-> ""]
Absent == [found |-> FALSE, raw |-> "", metadata |-> NoMeta]
NoReply == [op |-> "none", id |-> 0, args |-> <<>>, ok |-> TRUE, result |-> Absent, ids |-> <<>>]

\* AdvancedSMTPHandler.__init__ and RedisStorage after connect()
RoutingInit ==
    /\ default_recipients = [me |-> "self", channel |-> None, group |-> None]
    /\ target_mapping = EmptyMap
    /\ lastTarget = <<"me", "self">>

InitCommon ==
    /\ message_counter = 0
    /\ storeRet = [m \in Msgs |-> None]
    /\ route = [m \in Msgs |-> NoRoute]
    /\ okRoutes = [m \in Msgs |-> {}]
    /\ snapshotOk = [m \in Msgs |-> TRUE]
    /\ notif = [m \in Msgs |-> None]
    /\ prov = [m \in Msgs |-> None]
    /\ resp = [m \in Msgs |-> None]
    /\ sent = {}
    /\ now = 0
    /\ rawKey = [m \in Msgs |-> <<>>]
    /\ metaKey = [m \in Msgs |-> <<>>]
    /\ rawExp = [m \in Msgs |-> 0]
    /\ metaExp = [m \in Msgs |-> 0]
    /\ domainIndex = [d \in {} |-> {}]
    /\ tsIndex = [m \in {} |-> 0]
    /\ reply = NoReply
    /\ again = FALSE
    /\ storedAt = [m \in Msgs |-> -1]
    /\ swept = "none"

Init ==
    /\ InitCommon
    /\ DnsIdle
    /\ CfIdle
    /\ LifeIdle
    /\ IdIdle
    /\ FmtIdle
    /\ cf_manager = "client"
    /\ RoutingInit
    /\ pc = [m \in Msgs |-> "idle"]
    /\ inbox = [m \in Msgs |-> NoMsg]
    /\ metadata = [m \in Msgs |-> NoMeta]

\* ---- handle_message, stage by stage ----
Inbound ==
    {[raw |-> "r1", to |-> t, ok |-> TRUE] : t \in ToSet}
    \cup {[raw |-> "r2", to |-> <<"nobody">>, ok |-> FALSE]}

\* Arrive with parsing outside the try block's protection: a malformed message goes on
ArriveSkipsParseError(m, msg) ==
    /\ pc[m] = "idle"
    /\ m = message_counter + 1
    /\ message_counter' = message_counter + 1
    /\ inbox' = [inbox EXCEPT ![m] = msg]
    /\ metadata' = [metadata EXCEPT ![m] = ExtractMetadata(msg, m)]
    /\ pc' = [pc EXCEPT ![m] = "dns"]
    /\ UNCHANGED <<cfgVars, storeVars, histVars, queryVars, now, envVars, storeRet, route,
                   okRoutes, snapshotOk, notif, prov, sent, resp>>

\* Arrive that hands the message to store_email before the DNS report is there
ArriveSkipsDns(m, msg) ==
    /\ pc[m] = "idle"
    /\ m = message_counter + 1
    /\ message_counter' = message_counter + 1
    /\ inbox' = [inbox EXCEPT ![m] = msg]
    /\ IF msg.ok
       THEN /\ metadata' = [metadata EXCEPT ![m] = ExtractMetadata(msg, m)]
            /\ pc' = [pc EXCEPT ![m] = "store"]
            /\ UNCHANGED resp
       ELSE /\ resp' = [resp EXCEPT ![m] = "451"]
            /\ pc' = [pc EXCEPT ![m] = "done"]
            /\ UNCHANGED metadata
    /\ UNCHANGED <<cfgVars, storeVars, histVars, queryVars, now, envVars, storeRet, route,
                   okRoutes, snapshotOk, notif, prov, sent>>

\* handle_message up to the first await: the counter, the id, parsing and
\* _extract_metadata; msg.ok = FALSE: parsing or extraction raises.
Arrive(m, msg) ==
    /\ pc[m] = "idle"
    /\ m = message_counter + 1
    /\ message_counter' = message_counter + 1
    /\ inbox' = [inbox EXCEPT ![m] = msg]
    /\ IF msg.ok
       THEN /\ metadata' = [metadata EXCEPT ![m] = ExtractMetadata(msg, m)]
            /\ pc' = [pc EXCEPT ![m] = "dns"]
            /\ UNCHANGED resp
       ELSE /\ resp' = [resp EXCEPT ![m] = "451"]
            /\ pc' = [pc EXCEPT ![m] = "done"]
            /\ UNCHANGED metadata
    /\ UNCHANGED <<cfgVars, storeVars, histVars, queryVars, now, envVars, storeRet, route,
                   okRoutes, snapshotOk, notif, prov, sent>>

\* _validate_recipient_dns: the validator's report, or the fallback dict when the
\* validator raises ("errors": a total resolver failure the validator recorded itself)
ValidateRecipientDns(domain, outcome) ==
    CASE outcome = "mx" ->
           [domain |-> domain, mx_records |-> 1, has_mx |-> TRUE, errors |-> 0]
      [] outcome = "nomx" ->
           [domain |-> domain, mx_records |-> 0, has_mx |-> FALSE, errors |-> 0]
      [] outcome = "errors" ->
           [domain |-> domain, mx_records |-> 0, has_mx |-> FALSE, errors |-> 1]
      [] OTHER ->
           [domain |-> domain, error |-> "Validator not available"]

\* ValidateDns with the try/except of _validate_recipient_dns missing
ValidateDnsRaises(m, outcome) ==
    /\ pc[m] = "dns"
    /\ metadata' = [metadata EXCEPT ![m].dns_report =
                       ValidateRecipientDns(metadata[m].recipient_domain, outcome)]
    /\ IF outcome = "raised"
       THEN /\ resp' = [resp EXCEPT ![m] = "451"]
            /\ pc' = [pc EXCEPT ![m] = "done"]
       ELSE /\ pc' = [pc EXCEPT ![m] = "store"]
            /\ UNCHANGED resp
    /\ UNCHANGED <<cfgVars, storeVars, histVars, queryVars, now, envVars, message_counter,
                   inbox, storeRet, route, okRoutes, snapshotOk, notif, prov, sent>>

ValidateDns(m, outcome) ==
    /\ pc[m] = "dns"
    /\ metadata' = [metadata EXCEPT ![m].dns_report =
                       ValidateRecipientDns(metadata[m].recipient_domain, outcome)]
    /\ pc' = [pc EXCEPT ![m] = "store"]
    /\ UNCHANGED <<cfgVars, storeVars, histVars, queryVars, now, envVars, message_counter, inbox,
                   storeRet, route, okRoutes, snapshotOk, notif, prov, resp, sent>>

\* ---- Message Store: store_email ----
\* RedisStorage.message_ttl
message_ttl == ModelTTL

\* SETEX email:raw:{id} message_ttl ...: the time the key expires at
RawExpiry(t) == t + message_ttl
\* a metadata key that outlives the raw key by one tick
MetaExpiryLonger(t) == t + message_ttl + 1

\* SETEX email:meta:{id} message_ttl ...
MetaExpiry(t) == t + message_ttl

\* SADD that files every id under the default domain "unknown"
SAddUnknown(idx, recipient, id) ==
    [d \in DOMAIN idx \cup {"unknown"} |->
        IF d = "unknown"
        THEN (IF d \in DOMAIN idx THEN idx[d] ELSE {}) \cup {id}
        ELSE idx[d]]

\* SADD that files every id under "unknown" as well as under its own domain
SAddAlsoUnknown(idx, recipient, id) ==
    [d \in DOMAIN idx \cup {recipient, "unknown"} |->
        (IF d \in DOMAIN idx THEN idx[d] ELSE {}) \cup {id}]

\* SADD index:domain:{recipient} id
SAdd(idx, recipient, id) ==
    [d \in DOMAIN idx \cup {recipient} |->
        IF d = recipient
        THEN (IF d \in DOMAIN idx THEN idx[d] ELSE {}) \cup {id}
        ELSE idx[d]]

\* ZADD index:timestamp {id: score}
ZAdd(idx, id, score) ==
    [i \in DOMAIN idx \cup {id} |-> IF i = id THEN score ELSE idx[i]]

\* ZREMRANGEBYSCORE with an exclusive upper end
ZRemRangeByScoreExclusive(idx, lo, hi) ==
    [i \in {j \in DOMAIN idx : ~(lo <= idx[j] /\ idx[j] < hi)} |-> idx[i]]

\* ZREMRANGEBYSCORE index:timestamp lo hi (both ends inclusive)
ZRemRangeByScore(idx, lo, hi) ==
    [i \in {j \in DOMAIN idx : ~(lo <= idx[j] /\ idx[j] <= hi)} |-> idx[i]]

\* a sweep whose cutoff lies one tick later than now - message_ttl
CleanupOldIndexesEager(idx, t) == ZRemRangeByScore(idx, 0, t - message_ttl + 1)

\* _cleanup_old_indexes: cutoff = now - message_ttl
CleanupOldIndexes(idx, t) == ZRemRangeByScore(idx, 0, t - message_ttl)

\* store_email up to `await pipeline.execute()`: serialise, queue the four writes and
\* run them as one batch. ok = FALSE: serialising or the batch raised, nothing is
\* written and store_email returns False from its except branch.
StoreExecute(m, ok) ==
    /\ pc[m] = "store"
    /\ IF ok
       THEN /\ rawKey' = [rawKey EXCEPT ![m] = PickleDumps(inbox[m].raw)]
            /\ rawExp' = [rawExp EXCEPT ![m] = RawExpiry(now)]
            /\ metaKey' = [metaKey EXCEPT ![m] = JsonDumps(metadata[m])]
            /\ metaExp' = [metaExp EXCEPT ![m] = MetaExpiry(now)]
            /\ domainIndex' = SAdd(domainIndex, metadata[m].recipient_domain, m)
            /\ tsIndex' = ZAdd(tsIndex, m, now)
            /\ storedAt' = [storedAt EXCEPT ![m] = now]
            /\ UNCHANGED swept
            /\ pc' = [pc EXCEPT ![m] = "sweep"]
            /\ UNCHANGED storeRet
       ELSE /\ storeRet' = [storeRet EXCEPT ![m] = "False"]
            /\ pc' = [pc EXCEPT ![m] = "route"]
            /\ UNCHANGED <<storeVars, histVars>>
    /\ UNCHANGED <<cfgVars, queryVars, now, envVars, message_counter, inbox, metadata,
                   route, okRoutes, snapshotOk, notif, prov, resp, sent>>

\* StoreSweep with _cleanup_old_indexes letting its exception out: the except branch
\* of store_email returns False although the batch was written
StoreSweepPropagates(m, ok) ==
    /\ pc[m] = "sweep"
    /\ tsIndex' = IF ok THEN CleanupOldIndexes(tsIndex, now) ELSE tsIndex
    /\ swept' = IF ok THEN "ran" ELSE "failed"
    /\ storeRet' = [storeRet EXCEPT ![m] = IF ok THEN "True" ELSE "False"]
    /\ pc' = [pc EXCEPT ![m] = "route"]
    /\ UNCHANGED <<cfgVars, queryVars, storedAt, now, envVars, message_counter, inbox,
                   metadata, route, okRoutes, snapshotOk, notif, prov, resp, sent,
                   rawKey, metaKey, rawExp, metaExp, domainIndex>>

\* the rest of store_email: `await self._cleanup_old_indexes()` (a failure of the sweep
\* is logged inside it) and `return True`
StoreSweep(m, ok) ==
    /\ pc[m] = "sweep"
    /\ tsIndex' = IF ok THEN CleanupOldIndexes(tsIndex, now) ELSE tsIndex
    /\ swept' = IF ok THEN "ran" ELSE "failed"
    /\ storeRet' = [storeRet EXCEPT ![m] = "True"]
    /\ pc' = [pc EXCEPT ![m] = "route"]
    /\ UNCHANGED <<cfgVars, queryVars, storedAt, now, envVars, message_counter, inbox,
                   metadata, route, okRoutes, snapshotOk, notif, prov, resp, sent,
                   rawKey, metaKey, rawExp, metaExp, domainIndex>>

\* ---- the store's clock: a key set with SETEX is gone once its time is up ----
Expire(keys, exp, t) ==
    [i \in DOMAIN keys |-> IF keys[i] /= <<>> /\ exp[i] <= t THEN <<>> ELSE keys[i]]

Tick ==
    /\ now < MaxTime
    /\ now' = now + 1
    /\ rawKey' = Expire(rawKey, rawExp, now + 1)
    /\ metaKey' = Expire(metaKey, metaExp, now + 1)
    /\ UNCHANGED <<cfgVars, msgVars, histVars, queryVars, envVars,
                   rawExp, metaExp, domainIndex, tsIndex>>

\* ---- Message Store: retrieve_email ----
\* whether retrieve_email(id, ok) repeats the call recorded in last, none of id's keys
\* having reached its expiry time
Repeats(last, id, ok, t) ==
    /\ ok
    /\ last.op = "retrieve" /\ last.id = id /\ last.ok /\ last.result.found
    /\ t < rawExp[id] /\ t < metaExp[id]

\* ok = FALSE: the pipeline read, the deserialisation or the re-parse raised
RetrieveEmail(raws, metas, id, ok) ==
    IF ~ok THEN Absent
    ELSE IF Len(raws[id]) = 0 \/ Len(metas[id]) = 0 THEN Absent
    ELSE [found |-> TRUE, raw |-> PickleLoads(raws[id]), metadata |-> JsonLoads(metas[id])]

\* Retrieve that reads with GETDEL: a completed read removes the raw key
RetrieveConsumes(id, ok) ==
    /\ reply' = [op |-> "retrieve", id |-> id, args |-> <<>>, ok |-> ok,
                 result |-> RetrieveEmail(rawKey, metaKey, id, ok), ids |-> <<>>]
    /\ again' = Repeats(reply, id, ok, now)
    /\ rawKey' = IF ok THEN [rawKey EXCEPT ![id] = <<>>] ELSE rawKey
    /\ UNCHANGED <<cfgVars, msgVars, histVars, now, envVars,
                   metaKey, rawExp, metaExp, domainIndex, tsIndex>>

Retrieve(id, ok) ==
    /\ reply' = [op |-> "retrieve", id |-> id, args |-> <<>>, ok |-> ok,
                 result |-> RetrieveEmail(rawKey, metaKey, id, ok), ids |-> <<>>]
    /\ again' = Repeats(reply, id, ok, now)
    /\ UNCHANGED <<cfgVars, msgVars, storeVars, histVars, now, envVars>>

\* ---- Message Store: search_emails ----
MaxLimit == 2

Orderings(S) ==
    {q \in [1..Cardinality(S) -> S] : \A i, j \in 1..Cardinality(S) : i /= j => q[i] /= q[j]}

\* ZRANGE in place of ZREVRANGE: lowest score first
ZRangeAscending(idx, start, stop) ==
    LET sorted == CHOOSE q \in Orderings(DOMAIN idx) :
                      \A i, j \in 1..Len(q) :
                          i < j => \/ idx[q[i]] < idx[q[j]]
                                   \/ (idx[q[i]] = idx[q[j]] /\ q[i] < q[j])
        n == Len(sorted)
        last == IF stop < 0 THEN n + stop ELSE IF stop > n - 1 THEN n - 1 ELSE stop
    IN  SubSeq(sorted, start + 1, last + 1)

\* ZREVRANGE index:timestamp start stop: highest score first, equal scores by member
\* descending; a negative stop counts from the end
ZRevRange(idx, start, stop) ==
    LET sorted == CHOOSE q \in Orderings(DOMAIN idx) :
                      \A i, j \in 1..Len(q) :
                          i < j => \/ idx[q[i]] > idx[q[j]]
                                   \/ (idx[q[i]] = idx[q[j]] /\ q[i] > q[j])
        n == Len(sorted)
        last == IF stop < 0 THEN n + stop ELSE IF stop > n - 1 THEN n - 1 ELSE stop
    IN  SubSeq(sorted, start + 1, last + 1)

\* list(email_ids)[:limit]
Truncate(q, limit) == SubSeq(q, 1, IF limit < Len(q) THEN limit ELSE Len(q))

\* the loop of search_emails without the `if email_data:` test
FoundNoSkip(ids, raws, metas, failing) == ids

\* the loop of search_emails: the ids, in order, whose retrieve_email gave a record
RECURSIVE Found(_, _, _, _)
Found(ids, raws, metas, failing) ==
    IF ids = <<>> THEN <<>>
    ELSE LET id == ids[1]
             rest == Found(Tail(ids), raws, metas, failing)
         IN  IF RetrieveEmail(raws, metas, id, id \notin failing).found
             THEN <<id>> \o rest
             ELSE rest

\* search_emails(domain, limit, offset); domain = None: the recency search.
\* okIdx = FALSE: reading the index raised (the result is []); failing: the ids whose
\* retrieve_email raised; members: the order SMEMBERS happened to give.
Search(domain, limit, offset, okIdx, failing) ==
    /\ \E members \in (IF domain /= None /\ domain \in DOMAIN domainIndex
                       THEN Orderings(domainIndex[domain]) ELSE {<<>>}) :
          LET email_ids == IF domain /= None THEN members
                           ELSE ZRevRange(tsIndex, offset, offset + limit - 1)
          IN  reply' = [op |-> "search", id |-> 0, args |-> <<domain, limit, offset, failing>>,
                        ok |-> okIdx, result |-> Absent,
                        ids |-> IF okIdx
                                THEN Found(Truncate(email_ids, limit), rawKey, metaKey,
                                           failing)
                                ELSE <<>>]
    /\ again' = FALSE
    /\ UNCHANGED <<cfgVars, msgVars, storeVars, histVars, now, envVars>>

\* ---- handle_message: routing, notification, provisioning ----
RoutePcs == {"r_mapval", "r_chan", "r_chanval", "r_group", "r_groupval"}

\* the return of _determine_recipient: the decision, and whether it is the decision of
\* one of the configurations that existed while it was being computed
Decide(m, decision) ==
    /\ route' = [route EXCEPT ![m] = decision]
    /\ snapshotOk' = [snapshotOk EXCEPT ![m] = decision \in okRoutes[m]]
    /\ okRoutes' = [okRoutes EXCEPT ![m] = {}]
    /\ pc' = [pc EXCEPT ![m] = "notify"]

RouteFrame ==
    UNCHANGED <<cfgVars, storeVars, histVars, queryVars, now, envVars, message_counter,
                inbox, metadata, storeRet, notif, prov, resp, sent>>

\* RouteMapping without the domain-mapping lookup
RouteMappingSkipsCustom(m) ==
    /\ pc[m] = "route"
    /\ pc' = [pc EXCEPT ![m] = "r_chan"]
    /\ okRoutes' = [okRoutes EXCEPT ![m] =
          {DetermineRecipient(metadata[m], target_mapping, default_recipients)}]
    /\ UNCHANGED <<route, snapshotOk>>
    /\ RouteFrame

\* `if domain in self.target_mapping:`
RouteMapping(m) ==
    /\ pc[m] = "route"
    /\ pc' = [pc EXCEPT ![m] = IF metadata[m].recipient_domain \in DOMAIN target_mapping
                               THEN "r_mapval" ELSE "r_chan"]
    /\ okRoutes' = [okRoutes EXCEPT ![m] =
          {DetermineRecipient(metadata[m], target_mapping, default_recipients)}]
    /\ UNCHANGED <<route, snapshotOk>>
    /\ RouteFrame

\* `return 'custom', self.target_mapping[domain]`
RouteMappingValue(m) ==
    /\ pc[m] = "r_mapval"
    /\ Decide(m, <<"custom", target_mapping[metadata[m].recipient_domain]>>)
    /\ RouteFrame

\* `if self.default_recipients['channel']:`
RouteChannel(m) ==
    /\ pc[m] = "r_chan"
    /\ pc' = [pc EXCEPT ![m] = IF Truthy(default_recipients.channel)
                               THEN "r_chanval" ELSE "r_group"]
    /\ UNCHANGED <<route, snapshotOk, okRoutes>>
    /\ RouteFrame

\* `return 'channel', self.default_recipients['channel']`
RouteChannelValue(m) ==
    /\ pc[m] = "r_chanval"
    /\ Decide(m, <<"channel", default_recipients.channel>>)
    /\ RouteFrame

\* `elif self.default_recipients['group']:` and, when it is not set, `return 'me', 'self'`
RouteGroup(m) ==
    /\ pc[m] = "r_group"
    /\ IF Truthy(default_recipients.group)
       THEN /\ pc' = [pc EXCEPT ![m] = "r_groupval"]
            /\ UNCHANGED <<route, snapshotOk, okRoutes>>
       ELSE Decide(m, <<"me", "self">>)
    /\ RouteFrame

\* `return 'group', self.default_recipients['group']`
RouteGroupValue(m) ==
    /\ pc[m] = "r_groupval"
    /\ Decide(m, <<"group", default_recipients.group>>)
    /\ RouteFrame

\* _send_telegram_notification after the routing decision. sendOk = FALSE: the
\* transport's send_message raised. int(recipient_id) raises on a non-numeric id.
\* Every exception ends in the except branch of the function.
SendOutcome(decision, sendOk) ==
    IF ~Truthy(decision[2]) THEN "norecipient"
    ELSE IF decision[1] /= "me" /\ decision[2] \notin NumericIds THEN "failed"
    ELSE IF sendOk THEN "sent" ELSE "failed"

\* whether tg_client.send_message is called at all
SendCalled(decision) ==
    Truthy(decision[2]) /\ (decision[1] = "me" \/ decision[2] \in NumericIds)

\* Notify with the except branch of _send_telegram_notification missing: a failed send
\* reaches the except branch of handle_message
NotifyRaises(m, sendOk) ==
    /\ pc[m] = "notify"
    /\ notif' = [notif EXCEPT ![m] = SendOutcome(route[m], sendOk)]
    /\ sent' = IF SendCalled(route[m])
               THEN sent \cup {[msg |-> m,
                                target |-> IF route[m][1] = "me" THEN "me" ELSE route[m][2]]}
               ELSE sent
    /\ IF SendOutcome(route[m], sendOk) = "failed"
       THEN /\ resp' = [resp EXCEPT ![m] = "451"]
            /\ pc' = [pc EXCEPT ![m] = "done"]
       ELSE /\ pc' = [pc EXCEPT ![m] = "prov"]
            /\ UNCHANGED resp
    /\ UNCHANGED <<cfgVars, storeVars, histVars, queryVars, now, envVars, message_counter,
                   inbox, metadata, storeRet, route, okRoutes, snapshotOk, prov>>

Notify(m, sendOk) ==
    /\ pc[m] = "notify"
    /\ notif' = [notif EXCEPT ![m] = SendOutcome(route[m], sendOk)]
    /\ sent' = IF SendCalled(route[m])
               THEN sent \cup {[msg |-> m,
                                target |-> IF route[m][1] = "me" THEN "me" ELSE route[m][2]]}
               ELSE sent
    /\ pc' = [pc EXCEPT ![m] = "prov"]
    /\ UNCHANGED <<cfgVars, storeVars, histVars, queryVars, now, envVars, message_counter,
                   inbox, metadata, storeRet, route, okRoutes, snapshotOk, prov, resp>>

\* `domain.endswith('.t.me') or 't.me' in domain`
ManagedDomain(domain) == domain \in {"bob.t.me"}

\* what ensure_tmail_integration returns: a result summary, or a dict with only `error`
ProvOutcomes == {"ok", "error"}

\* _handle_dns_integration: "skipped" for an unmanaged domain; with no provider client
\* the attribute access on None raises; "error": the result carries an error field
ProvisionOutcome(domain, manager, outcome) ==
    IF ~ManagedDomain(domain) THEN "skipped"
    ELSE IF manager = None THEN "raised"
    ELSE outcome

\* Provision with the try/except of _handle_dns_integration missing: a provisioning
\* call that raises reaches the except branch of handle_message
ProvisionRaises(m, outcome) ==
    /\ pc[m] = "prov"
    /\ prov' = [prov EXCEPT ![m] =
                   ProvisionOutcome(metadata[m].recipient_domain, cf_manager, outcome)]
    /\ resp' = [resp EXCEPT ![m] =
                   IF ProvisionOutcome(metadata[m].recipient_domain, cf_manager, outcome)
                         = "raised"
                   THEN "451" ELSE "250"]
    /\ pc' = [pc EXCEPT ![m] = "done"]
    /\ UNCHANGED <<cfgVars, storeVars, histVars, queryVars, now, envVars, message_counter,
                   inbox, metadata, storeRet, route, okRoutes, snapshotOk, notif, sent>>

\* _handle_dns_integration, then the log line and `return "250 Message ... accepted"`
Provision(m, outcome) ==
    /\ pc[m] = "prov"
    /\ prov' = [prov EXCEPT ![m] =
                   ProvisionOutcome(metadata[m].recipient_domain, cf_manager, outcome)]
    /\ resp' = [resp EXCEPT ![m] = "250"]
    /\ pc' = [pc EXCEPT ![m] = "done"]
    /\ UNCHANGED <<cfgVars, storeVars, histVars, queryVars, now, envVars, message_counter,
                   inbox, metadata, storeRet, route, okRoutes, snapshotOk, notif, sent>>

\* what set_target_command does to the shared configuration
ApplyCommand(cmd, chatOk) ==
    LET t == Lower(cmd.type) IN
       IF ~CmdApplies(cmd, chatOk) THEN UNCHANGED cfgVars
       ELSE IF t = "me"
       THEN /\ default_recipients' = UpdateMe(default_recipients)
            /\ lastTarget' = <<"me", "self">>
            /\ UNCHANGED target_mapping
       ELSE IF t \in {"channel", "group"}
       THEN /\ default_recipients' = UpdateChat(default_recipients, t, cmd.key)
            /\ lastTarget' = <<t, cmd.key>>
            /\ UNCHANGED target_mapping
       ELSE /\ target_mapping' = UpdateMapping(target_mapping, cmd.key, cmd.val)
            /\ UNCHANGED <<default_recipients, lastTarget>>

\* SetTarget whose custom branch also makes the mapped id the active target
SetTargetCustomActivates(cmd, chatOk) ==
    /\ LET t == Lower(cmd.type) IN
         IF ~CmdApplies(cmd, chatOk) THEN UNCHANGED cfgVars
         ELSE IF t = "me"
         THEN /\ default_recipients' = UpdateMe(default_recipients)
              /\ lastTarget' = <<"me", "self">>
              /\ UNCHANGED target_mapping
         ELSE IF t \in {"channel", "group"}
         THEN /\ default_recipients' = UpdateChat(default_recipients, t, cmd.key)
              /\ lastTarget' = <<t, cmd.key>>
              /\ UNCHANGED target_mapping
         ELSE /\ target_mapping' = UpdateMapping(target_mapping, cmd.key, cmd.val)
              /\ default_recipients' = UpdateChat(default_recipients, "channel", cmd.val)
              /\ UNCHANGED lastTarget
    /\ okRoutes' = [m \in Msgs |->
          IF pc[m] \in RoutePcs
          THEN okRoutes[m] \cup {DetermineRecipient(metadata[m], target_mapping',
                                                      default_recipients')}
          ELSE okRoutes[m]]
    /\ UNCHANGED <<storeVars, histVars, queryVars, now, envVars, message_counter, pc,
                   inbox, metadata, storeRet, route, snapshotOk, notif, prov, resp, sent>>

\* ---- /set_target: one command. The handler touches the shared configuration in a
\* single dict.update (or one item assignment), so the command is one step; the replies
\* around it change nothing.
SetTarget(cmd, chatOk) ==
    /\ ApplyCommand(cmd, chatOk)
    /\ okRoutes' = [m \in Msgs |->
          IF pc[m] \in RoutePcs
          THEN okRoutes[m] \cup {DetermineRecipient(metadata[m], target_mapping',
                                                      default_recipients')}
          ELSE okRoutes[m]]
    /\ UNCHANGED <<storeVars, histVars, queryVars, now, envVars, message_counter, pc,
                   inbox, metadata, storeRet, route, snapshotOk, notif, prov, resp, sent>>

\* ---- Spec: handle_message, every stage with every outcome ----
\* The routing configuration mail arrives under: the one after construction, or one
\* that earlier /set_target commands left behind.
PipelineCfgs ==
    {[recips |-> [me |-> "self", channel |-> None, group |-> None],
      mapping |-> EmptyMap, last |-> <<"me", "self">>],
     [recips |-> [me |-> None, channel |-> "111", group |-> None],
      mapping |-> [d \in {"x.com"} |-> "999"], last |-> <<"channel", "111">>],
     [recips |-> [me |-> None, channel |-> None, group |-> "222"],
      mapping |-> [d \in {"x.com", "bob.t.me"} |-> IF d = "x.com" THEN "abc" ELSE ""],
      last |-> <<"group", "222">>]}

PipelineDns == {"mx", "errors", "raised"}

PipelineInit ==
    /\ InitCommon
    /\ DnsIdle
    /\ CfIdle
    /\ LifeIdle
    /\ IdIdle
    /\ FmtIdle
    /\ cf_manager \in {None, "client"}
    /\ \E c \in PipelineCfgs :
          /\ default_recipients = c.recips
          /\ target_mapping = c.mapping
          /\ lastTarget = c.last
    /\ pc = [m \in Msgs |-> "idle"]
    /\ inbox = [m \in Msgs |-> NoMsg]
    /\ metadata = [m \in Msgs |-> NoMeta]

Route(m) ==
    \/ RouteMapping(m)
    \/ RouteMappingValue(m)
    \/ RouteChannel(m)
    \/ RouteChannelValue(m)
    \/ RouteGroup(m)
    \/ RouteGroupValue(m)

Next ==
    \/ \E m \in 1..MaxArrivals, msg \in Inbound : Arrive(m, msg)
    \/ \E m \in Msgs, o \in PipelineDns : ValidateDns(m, o)
    \/ \E m \in Msgs, ok \in BOOLEAN : StoreExecute(m, ok)
    \/ \E m \in Msgs, ok \in BOOLEAN : StoreSweep(m, ok)
    \/ \E m \in Msgs : Route(m)
    \/ \E m \in Msgs, ok \in BOOLEAN : Notify(m, ok)
    \/ \E m \in Msgs, o \in ProvOutcomes : Provision(m, o)

Spec == PipelineInit /\ [][Next]_vars

\* ---- SpecLive: the pipeline with every await of a running handle_message returning:
\* the coroutine of message m goes on once the call it waits for has returned or raised
HandlerStep(m) ==
    \/ \E o \in PipelineDns : ValidateDns(m, o)
    \/ \E ok \in BOOLEAN : StoreExecute(m, ok)
    \/ \E ok \in BOOLEAN : StoreSweep(m, ok)
    \/ Route(m)
    \/ \E ok \in BOOLEAN : Notify(m, ok)
    \/ \E o \in ProvOutcomes : Provision(m, o)

SpecLive == PipelineInit /\ [][Next]_vars /\ \A m \in Msgs : WF_vars(HandlerStep(m))

\* ---- SpecRace: /set_target commands while messages are being routed ----
RaceCmds ==
    {c \in CmdArgs :
        \/ c.n = 1 /\ c.type \in {"me", "channel"}
        \/ c.n = 2 /\ c.type = "channel" /\ c.key = "111"
        \/ c.n = 2 /\ c.type = "group" /\ c.key = "222"
        \/ c.n = 2 /\ c.type = "custom" /\ c.eq /\ c.key = "x.com" /\ c.val = "999"}

RaceInbound == {msg \in Inbound : msg.ok}

NextRace ==
    \/ \E m \in 1..MaxArrivals, msg \in RaceInbound : Arrive(m, msg)
    \/ \E m \in Msgs : ValidateDns(m, "mx")
    \/ \E m \in Msgs : StoreExecute(m, TRUE)
    \/ \E m \in Msgs : StoreSweep(m, TRUE)
    \/ \E m \in Msgs : Route(m)
    \/ \E m \in Msgs : Notify(m, TRUE)
    \/ \E m \in Msgs : Provision(m, "ok")
    \/ \E cmd \in RaceCmds, ok \in BOOLEAN : SetTarget(cmd, ok)

SpecRace == Init /\ [][NextRace]_vars

\* ---- SpecTarget: any sequence of /set_target commands ----
NextTarget == \E cmd \in CmdArgs, ok \in BOOLEAN : SetTarget(cmd, ok)

SpecTarget == Init /\ [][NextTarget]_vars

\* ---- SpecCmd: /set_target commands with the reply each one ends with ----
TargetCommand(cmd, chatOk) ==
    /\ ApplyCommand(cmd, chatOk)
    /\ cmdReply' = [cmd |-> cmd, chatOk |-> chatOk, text |-> ReplyText(cmd, chatOk)]
    /\ UNCHANGED <<msgVars, storeVars, histVars, queryVars, now, cf_manager, dnsVars,
                   cfVars, idVars, fmtVars, redis, closes, app, lifePc, released>>

NextCmd == \E cmd \in CmdArgs, ok \in BOOLEAN : TargetCommand(cmd, ok)

SpecCmd == Init /\ [][NextCmd]_vars

\* ---- SpecStore: the Message Store under store, expiry, retrieve and search ----
\* the message in slot m, as handle_message hands it to store_email
StoreInput(m) ==
    CASE m % 3 = 1 -> [raw |-> "r1", to |-> <<"a", "X.COM">>, dns |-> "mx"]
      [] m % 3 = 2 -> [raw |-> "r2", to |-> <<"bob", "bob.t.me">>, dns |-> "raised"]
      [] OTHER -> [raw |-> "r1", to |-> <<"a", "X.COM">>, dns |-> "nomx"]

MetadataOf(in, m) ==
    [ExtractMetadata([raw |-> in.raw, to |-> in.to, ok |-> TRUE], m)
        EXCEPT !.dns_report = ValidateRecipientDns(ExtractDomain(in.to), in.dns)]

\* every message has been parsed and validated and waits at its store_email call
StoreInit ==
    /\ InitCommon
    /\ DnsIdle
    /\ CfIdle
    /\ LifeIdle
    /\ IdIdle
    /\ FmtIdle
    /\ cf_manager = "client"
    /\ RoutingInit
    /\ inbox = [m \in Msgs |-> [raw |-> StoreInput(m).raw, to |-> StoreInput(m).to,
                                ok |-> TRUE]]
    /\ metadata = [m \in Msgs |-> MetadataOf(StoreInput(m), m)]
    /\ pc = [m \in Msgs |-> "store"]

NextStore ==
    \/ \E m \in Msgs, ok \in BOOLEAN : StoreExecute(m, ok)
    \/ \E m \in Msgs, ok \in BOOLEAN : StoreSweep(m, ok)
    \/ Tick
    \/ \E id \in Msgs, ok \in BOOLEAN : Retrieve(id, ok)
    \/ \E d \in {None, "x.com"}, okIdx \in BOOLEAN :
          Search(d, MaxLimit, 0, okIdx, {})

SpecStore == StoreInit /\ [][NextStore]_vars

\* ---- SpecIndex: the domain sets under store, expiry and the domain search ----
\* the message in slot m: every third one has no '@' in its To header
IndexInput(m) ==
    CASE m % 3 = 1 -> [raw |-> "r1", to |-> <<"a", "X.COM">>, dns |-> "mx"]
      [] m % 3 = 2 -> [raw |-> "r2", to |-> <<"nobody">>, dns |-> "raised"]
      [] OTHER -> [raw |-> "r3", to |-> <<"b", "x.com">>, dns |-> "nomx"]

IndexDomains == {"x.com", "unknown", "bob.t.me"}

\* the msg_id each message was given, as the number of the keys it names: msg_id has no
\* link to the ids given before, so a message may carry the id of an earlier one
IndexKeys == {k \in [Msgs -> Msgs] : \A m \in Msgs : k[m] <= m}

\* every message has been parsed and validated and waits at its store_email call
IndexInit ==
    /\ InitCommon
    /\ DnsIdle
    /\ CfIdle
    /\ LifeIdle
    /\ FmtIdle
    /\ emailKeys = <<>>
    /\ cf_manager = "client"
    /\ RoutingInit
    /\ inbox = [m \in Msgs |-> [raw |-> IndexInput(m).raw, to |-> IndexInput(m).to,
                                ok |-> TRUE]]
    /\ \E k \in IndexKeys :
          /\ idFrame = [m \in Msgs |-> [NoIdFrame EXCEPT !.msg_id = k[m]]]
          /\ metadata = [m \in Msgs |-> MetadataOf(IndexInput(m), k[m])]
    /\ pc = [m \in Msgs |-> "store"]

\* store_email(msg_id, raw_email, metadata) up to `await pipeline.execute()`: the keys
\* and the index members are those of msg_id
IndexStore(m, ok) ==
    /\ pc[m] = "store"
    /\ LET id == idFrame[m].msg_id
       IN  IF ok
           THEN /\ rawKey' = [rawKey EXCEPT ![id] = PickleDumps(inbox[m].raw)]
                /\ rawExp' = [rawExp EXCEPT ![id] = RawExpiry(now)]
                /\ metaKey' = [metaKey EXCEPT ![id] = JsonDumps(metadata[m])]
                /\ metaExp' = [metaExp EXCEPT ![id] = MetaExpiry(now)]
                /\ domainIndex' = SAdd(domainIndex, metadata[m].recipient_domain, id)
                /\ tsIndex' = ZAdd(tsIndex, id, now)
                /\ storedAt' = [storedAt EXCEPT ![m] = now]
                /\ UNCHANGED swept
                /\ pc' = [pc EXCEPT ![m] = "sweep"]
                /\ UNCHANGED storeRet
           ELSE /\ storeRet' = [storeRet EXCEPT ![m] = "False"]
                /\ pc' = [pc EXCEPT ![m] = "route"]
                /\ UNCHANGED <<storeVars, histVars>>
    /\ UNCHANGED <<cfgVars, queryVars, now, envVars, message_counter, inbox, metadata,
                   route, okRoutes, snapshotOk, notif, prov, resp, sent>>

NextIndex ==
    \/ \E m \in Msgs, ok \in BOOLEAN : IndexStore(m, ok)
    \/ \E m \in Msgs : StoreSweep(m, TRUE)
    \/ Tick
    \/ \E d \in IndexDomains : Search(d, MaxLimit, 0, TRUE, {})

SpecIndex == IndexInit /\ [][NextIndex]_vars

\* ---- SpecResolve: _determine_recipient on every routing configuration ----
ReachableRecips ==
    {[recips |-> [me |-> "self", channel |-> None, group |-> None], last |-> <<"me", "self">>]}
    \cup {[recips |-> [me |-> None, channel |-> c, group |-> None],
           last |-> <<"channel", c>>] : c \in ChatIds}
    \cup {[recips |-> [me |-> None, channel |-> None, group |-> g],
           last |-> <<"group", g>>] : g \in ChatIds}

ReachableMappings == UNION {[S -> CustomIds] : S \in SUBSET MapDomains}

\* message 1 is about to be routed; no command runs meanwhile
ResolveInit ==
    /\ InitCommon
    /\ DnsIdle
    /\ CfIdle
    /\ LifeIdle
    /\ IdIdle
    /\ FmtIdle
    /\ cf_manager = "client"
    /\ \E r \in ReachableRecips :
          /\ default_recipients = r.recips
          /\ lastTarget = r.last
    /\ target_mapping \in ReachableMappings
    /\ \E t \in ToSet :
          /\ inbox = [m \in Msgs |-> IF m = 1 THEN [raw |-> "r1", to |-> t, ok |-> TRUE]
                                     ELSE NoMsg]
          /\ metadata = [m \in Msgs |->
                IF m = 1 THEN MetadataOf([raw |-> "r1", to |-> t, dns |-> "mx"], 1)
                ELSE NoMeta]
    /\ pc = [m \in Msgs |-> IF m = 1 THEN "route" ELSE "idle"]

NextResolve == \E m \in Msgs : Route(m)

SpecResolve == ResolveInit /\ [][NextResolve]_vars

\* ---- SpecSearch: search_emails on every state of the keys and the indexes ----
\* one id more than the message slots, so that a search has more entries than its limit
SearchIds == 1..(MaxMsgs + 1)
MaxOffset == 1

\* The store after some store_email calls: id was written at time at[id] (-1: never),
\* the clock stands at t, and the latest sweep that ran had cutoff cut (-1: none ran).
SearchInit ==
    /\ cf_manager = "client"
    /\ DnsIdle
    /\ CfIdle
    /\ LifeIdle
    /\ IdIdle
    /\ FmtIdle
    /\ RoutingInit
    /\ message_counter = 0
    /\ route = [m \in SearchIds |-> NoRoute]
    /\ okRoutes = [m \in SearchIds |-> {}]
    /\ snapshotOk = [m \in SearchIds |-> TRUE]
    /\ notif = [m \in SearchIds |-> None]
    /\ prov = [m \in SearchIds |-> None]
    /\ resp = [m \in SearchIds |-> None]
    /\ sent = {}
    /\ reply = NoReply
    /\ again = FALSE
    /\ inbox = [m \in SearchIds |-> [raw |-> StoreInput(m).raw, to |-> StoreInput(m).to,
                                     ok |-> TRUE]]
    /\ metadata = [m \in SearchIds |-> MetadataOf(StoreInput(m), m)]
    /\ \E at \in [SearchIds -> -1..MaxTime], t \in 0..MaxTime, cut \in -1..MaxTime :
          /\ \A id \in SearchIds : at[id] <= t
          /\ cut = -1 \/ cut <= t - message_ttl
          /\ storedAt = at
          /\ swept = IF cut >= 0 THEN "ran" ELSE "none"
          /\ now = t
          /\ pc = [m \in SearchIds |-> IF at[m] >= 0 THEN "route" ELSE "store"]
          /\ storeRet = [m \in SearchIds |-> IF at[m] >= 0 THEN "True" ELSE None]
          /\ rawKey = [id \in SearchIds |->
                IF at[id] >= 0 /\ t < RawExpiry(at[id])
                THEN PickleDumps(inbox[id].raw) ELSE <<>>]
          /\ metaKey = [id \in SearchIds |->
                IF at[id] >= 0 /\ t < MetaExpiry(at[id])
                THEN JsonDumps(metadata[id]) ELSE <<>>]
          /\ rawExp = [id \in SearchIds |-> IF at[id] >= 0 THEN RawExpiry(at[id]) ELSE 0]
          /\ metaExp = [id \in SearchIds |-> IF at[id] >= 0 THEN MetaExpiry(at[id]) ELSE 0]
          /\ tsIndex = [id \in {i \in SearchIds : at[i] >= 0 /\ at[i] > cut} |-> at[id]]
          /\ domainIndex =
                [d \in {metadata[i].recipient_domain : i \in {j \in SearchIds : at[j] >= 0}} |->
                    {i \in SearchIds : at[i] >= 0 /\ metadata[i].recipient_domain = d}]

\* one search_emails call on each state of the store
NextSearch ==
    /\ reply = NoReply
    /\ \E d \in {None, "x.com"}, limit \in 1..MaxLimit, offset \in 0..MaxOffset,
          okIdx \in BOOLEAN, failing \in {{}, {1}} :
             Search(d, limit, offset, okIdx, failing)

SpecSearch == SearchInit /\ [][NextSearch]_vars

\* ---- SpecDns: one validate_domain_mx call against every resolver behaviour ----
DnsInit ==
    /\ InitCommon
    /\ CfIdle
    /\ LifeIdle
    /\ IdIdle
    /\ FmtIdle
    /\ cf_manager = "client"
    /\ RoutingInit
    /\ pc = [m \in Msgs |-> "idle"]
    /\ inbox = [m \in Msgs |-> NoMsg]
    /\ metadata = [m \in Msgs |-> NoMeta]
    /\ dnsPc = <<"idle", 0>>
    /\ report = NewReport("")
    /\ lookups = <<>>
    /\ resolver \in Resolvers

NextDns ==
    \/ \E domain \in {"x.com", ""} : ValidateDomainMx(domain)
    \/ GetMxRecords
    \/ GetTxtRecords
    \/ GetNsRecords
    \/ GetSoaRecord
    \/ GetARecords
    \/ GetPtrRecords

SpecDns == DnsInit /\ [][NextDns]_vars

\* ---- SpecCf: one ensure_tmail_integration call against every provider behaviour ----
CfInit ==
    /\ InitCommon
    /\ DnsIdle
    /\ LifeIdle
    /\ IdIdle
    /\ FmtIdle
    /\ cf_manager = "client"
    /\ RoutingInit
    /\ pc = [m \in Msgs |-> "idle"]
    /\ inbox = [m \in Msgs |-> NoMsg]
    /\ metadata = [m \in Msgs |-> NoMeta]
    /\ cfCall = NoCfCall
    /\ cfRequests = <<>>
    /\ provider \in Providers

NextCf ==
    \/ \E u \in Usernames : EnsureTmailIntegration(u)
    \/ GetDnsRecords
    \/ CreateMxRecord
    \/ CreateTxtRecord
    \/ CreateCnameRecord

SpecCf == CfInit /\ [][NextCf]_vars

\* ---- SpecIds: the message id from its generation to the response ----
\* messages in flight at once
IdMsgs == 1..(MaxArrivals + 1)

\* the message in slot m; a message that cannot be parsed
IdInput(m) == [raw |-> StoreInput(m).raw, to |-> StoreInput(m).to, ok |-> TRUE]
BadInput == [raw |-> "bad", to |-> <<"nobody">>, ok |-> FALSE]

\* handle_message up to store_email: the counter, msg_id, parsing, _extract_metadata
\* and the DNS report; ok = FALSE: parsing raises and the except branch answers 451
\* with str(e)
IdArrive(m, ok, suffix) ==
    /\ pc[m] = "idle"
    /\ m = message_counter + 1
    /\ message_counter' = message_counter + 1
    /\ LET id == MsgId(now, suffix)
           msg == IF ok THEN IdInput(m) ELSE BadInput
       IN  /\ inbox' = [inbox EXCEPT ![m] = msg]
           /\ IF ok
              THEN /\ metadata' = [metadata EXCEPT ![m] =
                          [ExtractMetadata(msg, id) EXCEPT !.dns_report =
                              ValidateRecipientDns(ExtractDomain(msg.to), "mx")]]
                   /\ idFrame' = [idFrame EXCEPT ![m].msg_id = id, ![m].at = now]
                   /\ pc' = [pc EXCEPT ![m] = "store"]
                   /\ UNCHANGED resp
              ELSE /\ idFrame' = [idFrame EXCEPT ![m].msg_id = id, ![m].at = now,
                                                 ![m].answer = <<"451", ErrorText(msg)>>]
                   /\ resp' = [resp EXCEPT ![m] = "451"]
                   /\ pc' = [pc EXCEPT ![m] = "done"]
                   /\ UNCHANGED metadata
    /\ UNCHANGED <<cfgVars, storeVars, histVars, queryVars, now, cf_manager, dnsVars, cfVars, lifeVars,
                   fmtVars, emailKeys, storeRet, route, okRoutes, snapshotOk, notif, prov,
                   sent>>

\* `await self.redis_storage.store_email(msg_id, raw_email, metadata)`: both keys are
\* written under msg_id; ok = FALSE: store_email returns False
IdStore(m, ok) ==
    /\ pc[m] = "store"
    /\ emailKeys' = IF ok
                    THEN SetEx(emailKeys, idFrame[m].msg_id,
                               [raw |-> PickleDumps(inbox[m].raw),
                                meta |-> JsonDumps(metadata[m])])
                    ELSE emailKeys
    /\ storeRet' = [storeRet EXCEPT ![m] = IF ok THEN "True" ELSE "False"]
    /\ pc' = [pc EXCEPT ![m] = "notify"]
    /\ UNCHANGED <<cfgVars, storeVars, histVars, queryVars, now, cf_manager, dnsVars, cfVars, lifeVars,
                   fmtVars, idFrame, message_counter, inbox, metadata, route, okRoutes,
                   snapshotOk, notif, prov, resp, sent>>

\* the rest of handle_message: _send_telegram_notification (the text is formatted, with
\* self.message_counter in its title and msg_id on its second line, once a recipient is
\* there), _handle_dns_integration and the 250 response that embeds `embedded`
Finish(m, sendOk, embedded) ==
    /\ pc[m] = "notify"
    /\ LET decision == DetermineRecipient(metadata[m], target_mapping, default_recipients)
       IN  /\ route' = [route EXCEPT ![m] = decision]
           /\ notif' = [notif EXCEPT ![m] = SendOutcome(decision, sendOk)]
           /\ sent' = IF SendCalled(decision)
                      THEN sent \cup {[msg |-> m,
                                       target |-> IF decision[1] = "me" THEN "me"
                                                  ELSE decision[2]]}
                      ELSE sent
           /\ idFrame' = [idFrame EXCEPT
                             ![m].shown = IF Truthy(decision[2]) THEN idFrame[m].msg_id
                                          ELSE <<>>,
                             ![m].counter = IF Truthy(decision[2]) THEN message_counter
                                            ELSE 0,
                             ![m].answer = <<"250", embedded>>]
    /\ prov' = [prov EXCEPT ![m] =
                   ProvisionOutcome(metadata[m].recipient_domain, cf_manager, "ok")]
    /\ resp' = [resp EXCEPT ![m] = "250"]
    /\ pc' = [pc EXCEPT ![m] = "done"]
    /\ UNCHANGED <<cfgVars, storeVars, histVars, queryVars, now, cf_manager, dnsVars, cfVars, lifeVars,
                   fmtVars, emailKeys, message_counter, inbox, metadata, storeRet, okRoutes,
                   snapshotOk>>

\* IdFinish with msg_id kept on the handler object: the response embeds the id of the
\* message that arrived last
IdFinishShared(m, sendOk) == Finish(m, sendOk, idFrame[message_counter].msg_id)

\* `return f"250 Message {msg_id} accepted"` with the local msg_id
IdFinish(m, sendOk) == Finish(m, sendOk, idFrame[m].msg_id)

NextIds ==
    \/ \E m \in IdMsgs, ok \in BOOLEAN, s \in 1..MaxSuffix : IdArrive(m, ok, s)
    \/ \E m \in IdMsgs, ok \in BOOLEAN : IdStore(m, ok)
    \/ \E m \in IdMsgs : IdFinish(m, TRUE)
    \/ Tick

SpecIds == Init /\ [][NextIds]_vars

\* ---- SpecExtract: _extract_metadata and _format_notification on every message ----
ExtractInit ==
    /\ InitCommon
    /\ DnsIdle
    /\ CfIdle
    /\ LifeIdle
    /\ IdIdle
    /\ cf_manager = "client"
    /\ RoutingInit
    /\ pc = [m \in Msgs |-> "idle"]
    /\ inbox = [m \in Msgs |-> NoMsg]
    /\ metadata = [m \in Msgs |-> NoMeta]
    /\ email \in Emails
    /\ extracted = NoExtract
    /\ text = <<>>

\* handle_message from the counter to `metadata['dns_report'] = dns_report`
ExtractStep(suffix, outcome) ==
    /\ extracted = NoExtract
    /\ message_counter' = message_counter + 1
    /\ LET md == ExtractMetadataDict(email, MsgId(now, suffix))
           dns_report == ValidateRecipientDns(md.recipient_domain, outcome)
       IN  extracted' = [k \in DOMAIN md \cup {"dns_report"} |->
                            IF k = "dns_report" THEN dns_report ELSE md[k]]
    /\ UNCHANGED <<cfgVars, storeVars, histVars, queryVars, now, cf_manager, dnsVars, cfVars, lifeVars,
                   idVars, email, text, pc, inbox, metadata, storeRet, route, okRoutes,
                   snapshotOk, notif, prov, resp, sent>>

\* `formatted_msg = self._format_notification(msg_id, email_msg, metadata)`
FormatStep ==
    /\ extracted /= NoExtract
    /\ text = <<>>
    /\ text' = FormatNotification(extracted.message_id, message_counter, email, extracted)
    /\ UNCHANGED <<cfgVars, msgVars, storeVars, histVars, queryVars, now, cf_manager,
                   dnsVars, cfVars, lifeVars, idVars, email, extracted>>

NextExtract ==
    \/ \E o \in {"mx", "nomx", "errors", "raised"} : ExtractStep(1, o)
    \/ FormatStep

SpecExtract == ExtractInit /\ [][NextExtract]_vars

\* ---- SpecLoop: several messages on the event loop of the SMTP controller ----
\* handle_message coroutines share the one thread of that loop; a coroutine keeps the
\* thread until an await suspends it. validate_domain_mx awaits only its own helpers,
\* and these call the synchronous dns.resolver.Resolver.resolve, so from its call to its
\* return the thread is inside the validator. /set_target runs on the loop of the main
\* thread.
LoopFree == dnsPc[1] = "idle"

LoopResolvers ==
    {r \in Resolvers :
        /\ r.txt /\ r.ns /\ r.soa /\ r.ptrFail = {}
        /\ r.mx.n <= 1
        /\ \A i \in DOMAIN r.a : r.a[i] = 1}

\* the dns_report handle_message keeps, in the form the pipeline uses
ReportSummary(rep) ==
    [domain |-> rep.domain, mx_records |-> Len(rep.mx_records), has_mx |-> rep.has_mx,
     errors |-> Len(rep.errors)]

\* `await self.dns_validator.validate_domain_mx(domain)`: the call, up to its try block
BeginValidate(m, r) ==
    /\ pc[m] = "dns"
    /\ LoopFree
    /\ pc' = [pc EXCEPT ![m] = "resolving"]
    /\ report' = NewReport(IF metadata[m].recipient_domain = "" THEN "t.me"
                           ELSE metadata[m].recipient_domain)
    /\ lookups' = <<>>
    /\ resolver' = r
    /\ dnsPc' = <<"mx", 0>>
    /\ UNCHANGED <<cfgVars, storeVars, histVars, queryVars, now, cf_manager, cfVars, lifeVars, idVars,
                   fmtVars, message_counter, inbox, metadata, storeRet, route, okRoutes,
                   snapshotOk, notif, prov, resp, sent>>

\* `return report` and `metadata['dns_report'] = dns_report`
EndValidate(m) ==
    /\ pc[m] = "resolving"
    /\ dnsPc[1] = "done"
    /\ metadata' = [metadata EXCEPT ![m].dns_report = ReportSummary(report)]
    /\ pc' = [pc EXCEPT ![m] = "store"]
    /\ dnsPc' = <<"idle", 0>>
    /\ report' = NewReport("")
    /\ lookups' = <<>>
    /\ resolver' = NoResolver
    /\ UNCHANGED <<cfgVars, storeVars, histVars, queryVars, now, cf_manager, cfVars, lifeVars, idVars,
                   fmtVars, message_counter, inbox, storeRet, route, okRoutes, snapshotOk,
                   notif, prov, resp, sent>>

\* the steps of handle_message for message m that need the thread of the loop
LoopStep(m) ==
    \/ LoopFree /\ Arrive(m, [raw |-> "r1", to |-> <<"a", "X.COM">>, ok |-> TRUE])
    \/ \E r \in LoopResolvers : BeginValidate(m, r)
    \/ EndValidate(m)
    \/ LoopFree /\ StoreExecute(m, TRUE)
    \/ LoopFree /\ StoreSweep(m, TRUE)
    \/ LoopFree /\ Route(m)
    \/ LoopFree /\ Notify(m, TRUE)
    \/ LoopFree /\ Provision(m, "ok")

\* the lookups of the running validate_domain_mx call
LoopResolve ==
    \/ GetMxRecords
    \/ GetTxtRecords
    \/ GetNsRecords
    \/ GetSoaRecord
    \/ GetARecords
    \/ GetPtrRecords

LoopCmds == {c \in CmdArgs : c.n = 2 /\ c.type = "channel" /\ c.key = "111"}

NextLoop ==
    \/ \E m \in Msgs : LoopStep(m)
    \/ LoopResolve
    \/ \E cmd \in LoopCmds : SetTarget(cmd, TRUE)

SpecLoop == Init /\ [][NextLoop]_vars

\* ---- SpecSweep: store_email with the batch built and executed as separate steps ----
\* store_email up to the await: the commands are queued, the ZADD with the score that
\* `datetime.utcnow().timestamp()` gives at this moment
SweepBuild(m) ==
    /\ pc[m] = "store"
    /\ idFrame' = [idFrame EXCEPT ![m].msg_id = m, ![m].at = now]
    /\ pc' = [pc EXCEPT ![m] = "execute"]
    /\ UNCHANGED <<cfgVars, storeVars, histVars, queryVars, now, cf_manager, dnsVars,
                   cfVars, lifeVars, fmtVars, emailKeys, message_counter, inbox, metadata,
                   storeRet, route, okRoutes, snapshotOk, notif, prov, resp, sent>>

\* `await pipeline.execute()`: Redis runs the queued commands when they reach it; the
\* TTL of the keys counts from then, the score is the one queued
SweepExecute(m, ok) ==
    /\ pc[m] = "execute"
    /\ IF ok
       THEN /\ rawKey' = [rawKey EXCEPT ![m] = PickleDumps(inbox[m].raw)]
            /\ rawExp' = [rawExp EXCEPT ![m] = RawExpiry(now)]
            /\ metaKey' = [metaKey EXCEPT ![m] = JsonDumps(metadata[m])]
            /\ metaExp' = [metaExp EXCEPT ![m] = MetaExpiry(now)]
            /\ domainIndex' = SAdd(domainIndex, metadata[m].recipient_domain, m)
            /\ tsIndex' = ZAdd(tsIndex, m, idFrame[m].at)
            /\ storedAt' = [storedAt EXCEPT ![m] = now]
            /\ UNCHANGED swept
            /\ pc' = [pc EXCEPT ![m] = "sweep"]
            /\ UNCHANGED storeRet
       ELSE /\ storeRet' = [storeRet EXCEPT ![m] = "False"]
            /\ pc' = [pc EXCEPT ![m] = "route"]
            /\ UNCHANGED <<storeVars, histVars>>
    /\ UNCHANGED <<cfgVars, queryVars, now, envVars, message_counter, inbox, metadata,
                   route, okRoutes, snapshotOk, notif, prov, resp, sent>>

NextSweep ==
    \/ \E m \in Msgs : SweepBuild(m)
    \/ \E m \in Msgs, ok \in BOOLEAN : SweepExecute(m, ok)
    \/ \E m \in Msgs, ok \in BOOLEAN : StoreSweep(m, ok)
    \/ Tick

SpecSweep == StoreInit /\ [][NextSweep]_vars

\* ---- SpecConn: RedisStorage from __init__ on: connect, store_email, disconnect ----
ConnOutcomes == {"ok", "url", "ping"}

\* RedisStorage.__init__: self.redis = None; the messages wait at their store_email call
ConnInit ==
    /\ InitCommon
    /\ DnsIdle
    /\ CfIdle
    /\ IdIdle
    /\ FmtIdle
    /\ cf_manager = "client"
    /\ RoutingInit
    /\ inbox = [m \in Msgs |-> [raw |-> StoreInput(m).raw, to |-> StoreInput(m).to,
                                ok |-> TRUE]]
    /\ metadata = [m \in Msgs |-> MetadataOf(StoreInput(m), m)]
    /\ pc = [m \in Msgs |-> "store"]
    /\ redis = None
    /\ closes = <<>>
    /\ app = [is_running |-> TRUE, smtp_controller |-> None, tg_client |-> None,
              cf_manager |-> None, redis_storage |-> "set"]
    /\ lifePc = "init"
    /\ released = [c \in ComponentSet |-> 0]
    /\ cmdReply = NoCommand

ConnFrame ==
    UNCHANGED <<cfgVars, msgVars, storeVars, histVars, queryVars, now, cf_manager, dnsVars,
                cfVars, idVars, fmtVars, app, lifePc, released, cmdReply>>

\* connect(): outcome "url": from_url raised and self.redis stays None; "ping": the
\* client is assigned and ping raised; the exception is logged and raised again
Connect(outcome) ==
    /\ redis = None
    /\ redis' = CASE outcome = "ok" -> "connected"
                  [] outcome = "ping" -> "unreachable"
                  [] OTHER -> None
    /\ UNCHANGED closes
    /\ ConnFrame

\* `await self.redis.close()`: the client gives back the connection it holds, if any
Close(handle) == "closed"

\* disconnect() without the `if self.redis:` test: close() is looked up on None
DisconnectUnguarded ==
    /\ Len(closes) < MaxCalls
    /\ redis' = IF redis /= None THEN Close(redis) ELSE redis
    /\ closes' = Append(closes, [before |-> redis,
                                  after |-> IF redis /= None THEN Close(redis) ELSE redis,
                                  raised |-> redis = None])
    /\ ConnFrame

\* disconnect(): `if self.redis: await self.redis.close()`; self.redis keeps the client
Disconnect ==
    /\ Len(closes) < MaxCalls
    /\ redis' = IF redis /= None THEN Close(redis) ELSE redis
    /\ closes' = Append(closes, [before |-> redis, after |-> redis', raised |-> FALSE])
    /\ ConnFrame

\* store_email on this storage: `self.redis.pipeline()` raises on None and store_email
\* returns False
ConnStore(m, ok) == StoreExecute(m, ok /\ redis /= None)

NextConn ==
    \/ \E outcome \in ConnOutcomes : Connect(outcome)
    \/ Disconnect
    \/ \E m \in Msgs, ok \in BOOLEAN : ConnStore(m, ok)
    \/ \E m \in Msgs : StoreSweep(m, TRUE)
    \/ Tick

SpecConn == ConnInit /\ [][NextConn]_vars

\* ---- SpecLife: TelegramMailBridge.run from construction to exit ----
\* the components whose release call can raise (disconnect() of the store: see Close)
MayFail == {"smtp_controller", "tg_client", "cf_manager"}

\* TelegramMailBridge.__init__: no component yet, is_running False; the messages that
\* the SMTP server will take wait at their store_email call
LifeInit ==
    /\ InitCommon
    /\ DnsIdle
    /\ CfIdle
    /\ IdIdle
    /\ FmtIdle
    /\ cf_manager = "client"
    /\ RoutingInit
    /\ inbox = [m \in Msgs |-> [raw |-> StoreInput(m).raw, to |-> StoreInput(m).to,
                                ok |-> TRUE]]
    /\ metadata = [m \in Msgs |-> MetadataOf(StoreInput(m), m)]
    /\ pc = [m \in Msgs |-> "store"]
    /\ redis = None
    /\ closes = <<>>
    /\ app = [is_running |-> FALSE, smtp_controller |-> None, tg_client |-> None,
              cf_manager |-> None, redis_storage |-> None]
    /\ lifePc = "new"
    /\ released = [c \in ComponentSet |-> 0]
    /\ cmdReply = NoCommand

LifeFrame ==
    UNCHANGED <<cfgVars, msgVars, storeVars, histVars, queryVars, now, cf_manager, dnsVars,
                cfVars, idVars, fmtVars, closes, cmdReply>>

\* run(): `self.is_running = True`, then initialize_components
RunStart ==
    /\ lifePc = "new"
    /\ app' = [app EXCEPT !.is_running = TRUE]
    /\ lifePc' = "init_redis"
    /\ UNCHANGED <<redis, released>>
    /\ LifeFrame

\* step 1: the RedisStorage is assigned, then connect() (outcomes as in Connect)
InitRedis(outcome) ==
    /\ lifePc = "init_redis"
    /\ app' = [app EXCEPT !.redis_storage = "set"]
    /\ redis' = CASE outcome = "ok" -> "connected"
                  [] outcome = "ping" -> "unreachable"
                  [] OTHER -> None
    /\ lifePc' = IF outcome = "ok" THEN "init_cf" ELSE "init_except"
    /\ UNCHANGED released
    /\ LifeFrame

\* step 3: the provider client exists only when token, zone and domain are configured
InitCf(configured) ==
    /\ lifePc = "init_cf"
    /\ app' = [app EXCEPT !.cf_manager = IF configured THEN "set" ELSE None]
    /\ lifePc' = "init_tg"
    /\ UNCHANGED <<redis, released>>
    /\ LifeFrame

\* step 4: the Telegram client is assigned, then connect(); ok = FALSE: connect raised
InitTg(ok) ==
    /\ lifePc = "init_tg"
    /\ app' = [app EXCEPT !.tg_client = "set"]
    /\ lifePc' = IF ok THEN "init_smtp" ELSE "init_except"
    /\ UNCHANGED <<redis, released>>
    /\ LifeFrame

\* steps 5 to 7: the handler, the Controller is assigned, then start(); ok = FALSE:
\* start() raised. After it initialize_components returns True and run waits.
InitSmtp(ok) ==
    /\ lifePc = "init_smtp"
    /\ app' = [app EXCEPT !.smtp_controller = "set"]
    /\ lifePc' = IF ok THEN "serving" ELSE "init_except"
    /\ UNCHANGED <<redis, released>>
    /\ LifeFrame

\* the started SMTP server takes a message while run waits: its store_email call
ServeStore(m, ok) ==
    /\ lifePc = "serving"
    /\ ConnStore(m, ok)

\* the stop signal arrives, or the DNS check of run raises: run reaches its finally
StopServing ==
    /\ lifePc = "serving"
    /\ lifePc' = "finally"
    /\ UNCHANGED <<redis, app, released>>
    /\ LifeFrame

\* the positions of shutdown, one per release in the order of the code, for its two
\* call sites: the except branch of initialize_components and the finally block of run
ReleasePc ==
    [init_except |-> <<"except_smtp_controller", "except_tg_client",
                       "except_cf_manager", "except_redis_storage">>,
     finally |-> <<"finally_smtp_controller", "finally_tg_client",
                   "finally_cf_manager", "finally_redis_storage">>]

\* where control goes when shutdown returns or raises: from the except branch, return
\* False or the propagating exception both reach the finally block of run
AfterShutdown(caller) == IF caller = "init_except" THEN "finally" ELSE "exited"

\* shutdown(): `if not self.is_running: return`, else is_running = False
ShutdownEnter ==
    /\ lifePc \in DOMAIN ReleasePc
    /\ IF ~app.is_running
       THEN /\ lifePc' = AfterShutdown(lifePc)
            /\ UNCHANGED app
       ELSE /\ lifePc' = ReleasePc[lifePc][1]
            /\ app' = [app EXCEPT !.is_running = FALSE]
    /\ UNCHANGED <<redis, released>>
    /\ LifeFrame

\* one `if self.<component>: <release call>` of shutdown; raises: the call raises,
\* which ends shutdown, no try block being around it
Release(caller, i, raises) ==
    LET c == Components[i]
        nextPc == IF i = Len(Components) THEN AfterShutdown(caller)
                  ELSE ReleasePc[caller][i + 1]
    IN
    /\ lifePc = ReleasePc[caller][i]
    /\ raises => c \in MayFail /\ app[c] /= None
    /\ IF app[c] = None
       THEN UNCHANGED <<released, redis>>
       ELSE /\ released' = [released EXCEPT ![c] = @ + 1]
            /\ redis' = IF c = "redis_storage" /\ redis /= None
                         THEN Close(redis) ELSE redis
    /\ lifePc' = IF raises THEN AfterShutdown(caller) ELSE nextPc
    /\ UNCHANGED app
    /\ LifeFrame

NextLife ==
    \/ RunStart
    \/ \E outcome \in ConnOutcomes : InitRedis(outcome)
    \/ \E configured \in BOOLEAN : InitCf(configured)
    \/ \E ok \in BOOLEAN : InitTg(ok)
    \/ \E ok \in BOOLEAN : InitSmtp(ok)
    \/ \E m \in Msgs, ok \in BOOLEAN : ServeStore(m, ok)
    \/ StopServing
    \/ ShutdownEnter
    \/ \E caller \in DOMAIN ReleasePc, i \in 1..Len(Components), raises \in BOOLEAN :
          Release(caller, i, raises)

SpecLife == LifeInit /\ [][NextLife]_vars

\* ======================= properties =======================

\* ---- under Spec ----

\* C1: a message is answered 250 only if store_email succeeded for it; a failed store
\* write is answered 451, so no message is both unstored and acknowledged with 250.
CexC1 == \A m \in Msgs : resp[m] = "250" => storeRet[m] = "True"

\* C2: when the transport raises while the notification is being sent, the exception is
\* contained: handle_message never answers 451 because of it and finishes with 250, and
\* the record store_email wrote is still there, retrievable with the same content.
ThmC2 ==
    \A m \in Msgs :
       notif[m] = "failed" =>
          /\ resp[m] /= "451"
          /\ pc[m] = "done" => resp[m] = "250"
          /\ storeRet[m] = "True" =>
                LET r == RetrieveEmail(rawKey, metaKey, m, TRUE) IN
                   /\ r.found
                   /\ r.raw = inbox[m].raw
                   /\ r.metadata = metadata[m]

WitC2 ==
    \E m \in Msgs :
       /\ pc[m] = "done" /\ resp[m] = "250"
       /\ notif[m] = "failed"
       /\ \E c \in sent : c.msg = m
       /\ storeRet[m] = "True"
       /\ RetrieveEmail(rawKey, metaKey, m, TRUE).found

\* C4: a failure of DNS validation (the fallback report, or a report with errors) or of
\* DNS provisioning (the provider call failing, or no provider client) never changes
\* the response: the message is answered 250, never 451, and the store and the
\* notification have both been run by then.
ThmC4 ==
    \A m \in Msgs :
       LET r == metadata[m].dns_report
           dnsFailed == /\ pc[m] \notin {"idle", "dns"}
                        /\ inbox[m].ok
                        /\ \/ "error" \in DOMAIN r
                           \/ "errors" \in DOMAIN r /\ r.errors > 0
           provFailed == prov[m] \in {"error", "raised"}
       IN  (dnsFailed \/ provFailed) =>
              /\ resp[m] /= "451"
              /\ pc[m] = "done" =>
                    /\ resp[m] = "250"
                    /\ storeRet[m] \in {"True", "False"}
                    /\ notif[m] /= None

WitC4 ==
    \E m \in Msgs :
       /\ pc[m] = "done" /\ resp[m] = "250"
       /\ "error" \in DOMAIN metadata[m].dns_report
       /\ prov[m] = "raised"
       /\ storeRet[m] = "True"
       /\ notif[m] = "sent"

\* C5: when parsing the raw message or extracting its metadata raises, handle_message
\* answers 451 and nothing of the message is left: no raw key, no metadata key, no index
\* entry, no notification and no provisioning call.
ThmC5 ==
    \A m \in Msgs :
       (pc[m] /= "idle" /\ ~inbox[m].ok) =>
          /\ pc[m] = "done" /\ resp[m] = "451"
          /\ rawKey[m] = <<>> /\ metaKey[m] = <<>>
          /\ m \notin DOMAIN tsIndex
          /\ \A d \in DOMAIN domainIndex : m \notin domainIndex[d]
          /\ storeRet[m] = None
          /\ notif[m] = None /\ ~\E c \in sent : c.msg = m
          /\ prov[m] = None

WitC5 == \E m \in Msgs : pc[m] = "done" /\ ~inbox[m].ok /\ resp[m] = "451"

\* ---- under SpecResolve ----

\* C3: the decision of _determine_recipient follows the precedence: a mapping entry for
\* the recipient domain wins whatever the active target is (custom, with the mapped id);
\* otherwise the active channel or group is used; otherwise the decision is me/self.
ThmC3 ==
    \A m \in Msgs :
       pc[m] = "notify" =>
          LET d == metadata[m].recipient_domain IN
             route[m] = IF d \in DOMAIN target_mapping THEN <<"custom", target_mapping[d]>>
                        ELSE IF lastTarget[1] \in {"channel", "group"} THEN lastTarget
                        ELSE <<"me", "self">>

WitC3 ==
    \E m \in Msgs :
       /\ pc[m] = "notify"
       /\ lastTarget = <<"channel", "111">>
       /\ metadata[m].recipient_domain = "x.com"
       /\ route[m] = <<"custom", "999">>

\* ---- under SpecRace ----

\* C6: under any interleaving of /set_target commands with handle_message calls, every
\* routing decision is the decision of a configuration that existed entirely before or
\* entirely after each command.
CexC6 == \A m \in Msgs : snapshotOk[m]

\* ---- under SpecTarget ----

\* C7: after any sequence of /set_target commands exactly one of me, channel and group
\* is set in default_recipients, and it is the one the last applied me/channel/group
\* command named (me after construction).
ThmC7 ==
    /\ Cardinality({k \in {"me", "channel", "group"} : Truthy(default_recipients[k])}) = 1
    /\ default_recipients[lastTarget[1]] = lastTarget[2]

WitC7 ==
    /\ lastTarget = <<"group", "222">>
    /\ default_recipients = [me |-> None, channel |-> None, group |-> "222"]
    /\ "x.com" \in DOMAIN target_mapping

\* ---- under SpecStore ----

\* C8 (as stated): retrieve_email(id) returns a record exactly when the raw key and the
\* metadata key of id are both present.
CexC8 ==
    [][(reply'.op = "retrieve" /\ <<reply, again>>' /= <<reply, again>>) =>
          (reply'.result.found <=>
              (rawKey[reply'.id] /= <<>> /\ metaKey[reply'.id] /= <<>>))]_vars

\* C8 (amended): a retrieve_email(id) call that completes without raising returns a
\* record exactly when both keys of id are present, and the record carries the raw bytes
\* and the metadata given to store_email for id; a call that raises returns absent.
ThmC8 ==
    [][(reply'.op = "retrieve" /\ <<reply, again>>' /= <<reply, again>>) =>
          LET id == reply'.id
              res == reply'.result
          IN  /\ reply'.ok =>
                    /\ res.found <=> (rawKey[id] /= <<>> /\ metaKey[id] /= <<>>)
                    /\ res.found => res.raw = inbox[id].raw /\ res.metadata = metadata[id]
              /\ ~reply'.ok => ~res.found]_vars

WitC8 ==
    /\ reply.op = "retrieve" /\ reply.ok
    /\ reply.result.found
    /\ reply.result.raw = inbox[reply.id].raw
    /\ reply.result.metadata = metadata[reply.id]
    /\ "errors" \in DOMAIN reply.result.metadata.dns_report

ThmC10 ==
    \A id \in Msgs :
       storedAt[id] >= 0 =>
          /\ now < storedAt[id] + message_ttl =>
                RetrieveEmail(rawKey, metaKey, id, TRUE).found
          /\ now > storedAt[id] + message_ttl =>
                ~RetrieveEmail(rawKey, metaKey, id, TRUE).found
          /\ rawExp[id] = storedAt[id] + message_ttl
          /\ metaExp[id] = storedAt[id] + message_ttl

WitC10 ==
    /\ reply.op = "retrieve" /\ reply.ok /\ ~reply.result.found
    /\ storedAt[reply.id] >= 0
    /\ now > storedAt[reply.id] + message_ttl
    /\ \E id \in Msgs : storedAt[id] >= 0 /\ RetrieveEmail(rawKey, metaKey, id, TRUE).found

\* C11 (as stated): in every state an id is in the recency index exactly when its raw
\* and metadata keys have not yet expired.
CexC11 ==
    \A id \in Msgs :
       id \in DOMAIN tsIndex <=> (rawKey[id] /= <<>> /\ metaKey[id] /= <<>>)

\* C11 (amended): in every state an id whose raw and metadata keys have not yet expired
\* is in the recency index, with the time of its write as score; an id in the index was
\* stored, and may have expired already: it stays until the sweep of a later store.
ThmC11 ==
    \A id \in Msgs :
       /\ (rawKey[id] /= <<>> /\ metaKey[id] /= <<>>) =>
             (id \in DOMAIN tsIndex /\ tsIndex[id] = storedAt[id])
       /\ id \in DOMAIN tsIndex => storedAt[id] >= 0

WitC11 ==
    \E a, b \in Msgs :
       /\ rawKey[a] /= <<>> /\ metaKey[a] /= <<>> /\ a \in DOMAIN tsIndex
       /\ storedAt[b] >= 0 /\ rawKey[b] = <<>> /\ b \notin DOMAIN tsIndex
       /\ storeRet[a] = "True"

\* ---- under SpecSearch ----

\* C12: search_emails without a domain returns the records in descending order of their
\* recency score: it skips the first offset entries of the index, takes at most limit
\* entries after them and returns those of them that a read finds, newest first. With
\* three entries of different scores, limit 2 gives the newest and then the second.
ThmC12 ==
    (reply.op = "search" /\ reply.ok /\ reply.args[1] = None) =>
       LET limit == reply.args[2]
           offset == reply.args[3]
           failing == reply.args[4]
           ids == reply.ids
           above(x) == Cardinality({y \in DOMAIN tsIndex :
                                       \/ tsIndex[y] > tsIndex[x]
                                       \/ (tsIndex[y] = tsIndex[x] /\ y > x)})
           live(x) == rawKey[x] /= <<>> /\ metaKey[x] /= <<>>
       IN  /\ Len(ids) <= limit
           /\ \A i, j \in 1..Len(ids) :
                 i < j => (tsIndex[ids[i]] >= tsIndex[ids[j]] /\ ids[i] /= ids[j])
           /\ {ids[i] : i \in 1..Len(ids)} =
                 {x \in DOMAIN tsIndex :
                     /\ offset <= above(x) /\ above(x) < offset + limit
                     /\ live(x) /\ x \notin failing}

WitC12 ==
    /\ reply.op = "search" /\ reply.ok /\ reply.args[1] = None
    /\ reply.args[2] = 2 /\ reply.args[3] = 0
    /\ \E a, b, c \in DOMAIN tsIndex :
          /\ tsIndex[a] > tsIndex[b] /\ tsIndex[b] > tsIndex[c]
          /\ reply.ids = <<a, b>>

\* C13: in every state of the indexes and keys, search_emails returns no id whose raw or
\* metadata key is missing or expired (those are skipped, the call still succeeds) and
\* at most limit records, for the domain search and for the recency search.
ThmC13 ==
    reply.op = "search" =>
       /\ Len(reply.ids) <= reply.args[2]
       /\ \A i \in 1..Len(reply.ids) :
             /\ rawKey[reply.ids[i]] /= <<>> /\ metaKey[reply.ids[i]] /= <<>>
             /\ now < rawExp[reply.ids[i]] /\ now < metaExp[reply.ids[i]]
             /\ reply.ids[i] \notin reply.args[4]

WitC13 ==
    /\ reply.op = "search" /\ reply.ok /\ reply.args[1] = "x.com"
    /\ "x.com" \in DOMAIN domainIndex
    /\ \E a, b \in domainIndex["x.com"] :
          /\ rawKey[a] = <<>> /\ now >= rawExp[a]
          /\ reply.ids = <<b>>
    /\ \E c \in DOMAIN tsIndex : rawKey[c] = <<>>

\* ---- under SpecStore (continued) ----

\* C14: once store_email(id, raw, metadata) has returned True for a write made at time
\* t, and until the TTL is over, all four writes are in place: the raw key and the
\* metadata key hold what was passed and expire at t + message_ttl, id is in the domain
\* set of the metadata's recipient_domain, and id is in the recency index with score t.
ThmC14 ==
    \A m \in Msgs :
       (storeRet[m] = "True" /\ now < storedAt[m] + message_ttl) =>
          /\ 0 <= storedAt[m] /\ storedAt[m] <= now
          /\ rawKey[m] = PickleDumps(inbox[m].raw)
          /\ metaKey[m] = JsonDumps(metadata[m])
          /\ rawExp[m] = storedAt[m] + message_ttl
          /\ metaExp[m] = storedAt[m] + message_ttl
          /\ metadata[m].recipient_domain \in DOMAIN domainIndex
          /\ m \in domainIndex[metadata[m].recipient_domain]
          /\ m \in DOMAIN tsIndex
          /\ tsIndex[m] = storedAt[m]

WitC14 ==
    \E m, k \in Msgs :
       /\ m /= k
       /\ storeRet[m] = "True" /\ storedAt[m] = now /\ now > 0
       /\ m \in DOMAIN tsIndex /\ tsIndex[m] = now
       /\ rawKey[m] /= <<>> /\ metaKey[m] /= <<>>
       /\ storedAt[k] >= 0 /\ storedAt[k] < now

\* C15: the sweep at the end of a store_email call removes from the recency index
\* exactly the entries with score <= now - message_ttl: every newer entry stays with its
\* score, the entry just added among them, and when the sweep ran no older entry is
\* left; a sweep that failed leaves the index as it was.
ThmC15 ==
    [][\A m \in Msgs :
          (pc[m] = "sweep" /\ pc'[m] = "route") =>
             /\ DOMAIN tsIndex' \subseteq DOMAIN tsIndex
             /\ \A i \in DOMAIN tsIndex :
                   tsIndex[i] > now - message_ttl =>
                      (i \in DOMAIN tsIndex' /\ tsIndex'[i] = tsIndex[i])
             /\ swept' = "ran" =>
                   \A i \in DOMAIN tsIndex : tsIndex[i] <= now - message_ttl =>
                                                i \notin DOMAIN tsIndex'
             /\ swept' = "failed" => tsIndex' = tsIndex
             /\ now < storedAt[m] + message_ttl => m \in DOMAIN tsIndex']_vars

WitC15 ==
    /\ swept = "ran"
    /\ \E m, k \in Msgs :
          /\ pc[m] = "route" /\ storeRet[m] = "True"
          /\ m \in DOMAIN tsIndex /\ tsIndex[m] = now
          /\ storedAt[k] >= 0 /\ storedAt[k] = now - message_ttl
          /\ k \notin DOMAIN tsIndex

\* C16: store_email always returns to its caller: once the call is over it has returned
\* True or False; it returns False when serialising or writing failed, True only when
\* the write batch was executed, and True as well when the batch was executed and only
\* the sweep failed.
ThmC16 ==
    \A m \in Msgs :
       /\ storeRet[m] \in {None, "True", "False"}
       /\ pc[m] \in {"store", "sweep"} <=> storeRet[m] = None
       /\ storeRet[m] = "True" => storedAt[m] >= 0
       /\ (storeRet[m] /= None /\ storedAt[m] >= 0) => storeRet[m] = "True"
       /\ (storeRet[m] /= None /\ storedAt[m] < 0) => storeRet[m] = "False"

WitC16 ==
    \E m, k \in Msgs :
       /\ storeRet[m] = "True" /\ swept = "failed"
       /\ storeRet[k] = "False" /\ pc[k] = "route"
       /\ rawKey[k] = <<>> /\ k \notin DOMAIN tsIndex

\* ---- under SpecDns ----

\* C17: validate_domain_mx never raises: whatever the resolver does, a total failure
\* included, the call ends by returning its report, and the exception that escapes a
\* lookup (the one _get_mx_records re-raises) is an entry of the report's errors.
ThmC17 ==
    /\ dnsPc[1] \in {"idle", "mx", "txt", "ns", "soa", "a", "ptr", "done"}
    /\ dnsPc[1] = "done" =>
          /\ report.domain \in {"x.com", "t.me"}
          /\ resolver.mx.kind = "fail" <=> report.errors = <<"critical">>
          /\ resolver.mx.kind /= "fail" => report.errors = <<>>
    /\ dnsPc[1] \notin {"idle", "done"} => ENABLED NextDns

WitC17 ==
    /\ dnsPc[1] = "done"
    /\ resolver.mx.kind = "fail"
    /\ ~resolver.txt /\ ~resolver.ns /\ ~resolver.soa
    /\ report.errors = <<"critical">>
    /\ report.domain = "t.me"

\* C18: a resolution failure of one record type (MX, TXT, NS, SOA, A or PTR) leaves that
\* type's result empty, adds no entry to errors and does not keep the other record
\* types from being looked up: a returned report has no errors entry for a failed
\* lookup, and MX, TXT, NS and SOA, an A lookup per MX host and the PTR lookups of the
\* first A records were all issued.
CexC18 ==
    dnsPc[1] = "done" =>
       /\ report.errors = <<>>
       /\ \A t \in {"MX", "TXT", "NS", "SOA"} : \E i \in 1..Len(lookups) : lookups[i].type = t
       /\ \A h \in 1..Len(report.mx_records) :
             \E i \in 1..Len(lookups) : lookups[i] = [type |-> "A", n |-> h]
       /\ \A j \in 1..Len(report.a_records) :
             j <= PtrLimit => \E i \in 1..Len(lookups) : lookups[i] = [type |-> "PTR", n |-> j]

\* C19: in every report of validate_domain_mx, returned after success or after any
\* failure, has_mx is true exactly when mx_records is not empty.
ThmC19 == report.has_mx <=> Len(report.mx_records) > 0

WitC19 ==
    /\ dnsPc[1] = "done"
    /\ report.has_mx /\ Len(report.mx_records) = MaxMx
    /\ \E i \in 1..Len(report.mx_records) : report.mx_records[i].resolved = "no"
    /\ report.txt_records = <<>>

\* C20: within one validate_domain_mx call the lookups are issued in the order MX, TXT,
\* NS, SOA, then one A lookup per resolved MX host, then the PTR lookups, of which there
\* are at most 3, for the first 3 A records, however many A records were resolved.
ThmC20 ==
    LET k == Len(report.mx_records)
        first == <<"MX", "TXT", "NS", "SOA">>
        ptrs == {i \in 1..Len(lookups) : lookups[i].type = "PTR"}
    IN  /\ \A i \in 1..Len(lookups) :
              /\ i <= 4 => lookups[i] = [type |-> first[i], n |-> 0]
              /\ (4 < i /\ i <= 4 + k) => lookups[i] = [type |-> "A", n |-> i - 4]
              /\ i > 4 + k =>
                    /\ lookups[i] = [type |-> "PTR", n |-> i - 4 - k]
                    /\ i - 4 - k <= Len(report.a_records)
        /\ Cardinality(ptrs) <= PtrLimit
        /\ (dnsPc[1] = "done" /\ report.errors = <<>>) =>
              Len(lookups) = 4 + k + (IF Len(report.a_records) < PtrLimit
                                      THEN Len(report.a_records) ELSE PtrLimit)

WitC20 ==
    /\ dnsPc[1] = "done"
    /\ Len(report.a_records) > PtrLimit
    /\ Len(lookups) = 4 + Len(report.mx_records) + PtrLimit
    /\ lookups[Len(lookups)] = [type |-> "PTR", n |-> PtrLimit]
    /\ report.a_records[PtrLimit + 1].ptr = <<"unset">>

\* ---- under SpecCf ----

\* C21: ensure_tmail_integration sends all four create requests (MX priority 10, MX
\* priority 20, TXT, CNAME) whichever of them fail, and its result reports the success or
\* failure of each; a result carrying an error field comes only from an exception at the
\* top level of the call, and then it carries nothing else.
ThmC21 ==
    cfCall.pc = "done" =>
       LET res == cfCall.result
           creates == SelectSeq(cfRequests, LAMBDA r : r.type /= "LIST")
       IN  /\ "error" \in DOMAIN res <=> cfCall.raised
           /\ cfCall.raised <=> cfCall.username = None
           /\ cfCall.raised => DOMAIN res = {"error"}
           /\ ~cfCall.raised =>
                 /\ creates = <<[type |-> "MX", priority |-> 10],
                                [type |-> "MX", priority |-> 20],
                                [type |-> "TXT", priority |-> 0],
                                [type |-> "CNAME", priority |-> 0]>>
                 /\ Len(res.mx_records) = 2
                 /\ res.mx_records[1].priority = 10
                 /\ res.mx_records[1].success = "True" <=> provider.mx10 = "ok"
                 /\ res.mx_records[2].priority = 20
                 /\ res.mx_records[2].success = "True" <=> provider.mx20 = "ok"
                 /\ res.txt_record.success = "True" <=> provider.txt = "ok"
                 /\ res.cname_record.success = "True" <=> provider.cname = "ok"
                 /\ \A v \in {res.mx_records[1].success, res.mx_records[2].success,
                               res.txt_record.success, res.cname_record.success} :
                        v \in {"True", "False", "None"}

WitC21 ==
    /\ cfCall.pc = "done" /\ ~cfCall.raised
    /\ provider.mx10 = "raises" /\ provider.mx20 = "refused"
    /\ provider.txt = "raises" /\ provider.cname = "ok"
    /\ Len(cfRequests) = 5
    /\ cfCall.result.mx_records[1].success = "False"
    /\ cfCall.result.cname_record.success = "True"

\* ---- under Spec (continued) ----

\* C22: for every message answered 250 the transport's send_message was called at least
\* once for that message before the response, whatever the routing configuration was
\* (self, channel, group or any custom mapping entry).
CexC22 == \A m \in Msgs : resp[m] = "250" => \E c \in sent : c.msg = m

\* C23: the stages of one message run in the order parse, DNS validation, store,
\* routing, notification, provisioning: the store write is issued only with the DNS
\* report attached to the metadata, send_message is called only after store_email has
\* returned and the target was decided, the provider is called only after the
\* notification attempt is over, and 250 is returned only after the provisioning stage.
ThmC23 ==
    \A m \in Msgs :
       LET storeIssued == pc[m] = "sweep" \/ storeRet[m] /= None \/ storedAt[m] >= 0
           sendIssued == \E c \in sent : c.msg = m
       IN  /\ storeIssued =>
                 /\ inbox[m].ok /\ metadata[m].message_id = m
                 /\ metadata[m].dns_report /= NoReport
                 /\ metadata[m].dns_report.domain = metadata[m].recipient_domain
           /\ metaKey[m] /= <<>> => JsonLoads(metaKey[m]).dns_report /= NoReport
           /\ route[m] /= NoRoute => storeRet[m] /= None
           /\ sendIssued => (storeRet[m] /= None /\ route[m] /= NoRoute)
           /\ notif[m] /= None => route[m] /= NoRoute
           /\ prov[m] /= None => notif[m] /= None
           /\ resp[m] = "250" => prov[m] /= None

WitC23 ==
    \E m \in Msgs :
       /\ pc[m] = "done" /\ resp[m] = "250"
       /\ metadata[m].dns_report /= NoReport
       /\ storeRet[m] = "True" /\ storedAt[m] >= 0
       /\ \E c \in sent : c.msg = m
       /\ notif[m] = "sent"
       /\ prov[m] = "ok"

\* ---- under SpecLoop ----

\* C24: while one message is inside its DNS resolution, every other message in flight
\* can still take its next step: no state has another handle_message blocked because
\* the lookups of that message have not returned yet.
CexC24 ==
    \A m, k \in Msgs :
       (/\ m /= k
        /\ pc[m] = "resolving" /\ dnsPc[1] /= "done"
        /\ pc[k] \notin {"idle", "done"})
          => ENABLED LoopStep(k)

\* ---- under Spec ----

\* C35: every notification handed to the transport refers to a message that is
\* retrievable from the store when it is sent: none is sent for a message whose
\* store_email call returned False.
CexC35 ==
    [][\A call \in sent' \ sent :
          /\ storeRet[call.msg] = "True"
          /\ RetrieveEmail(rawKey, metaKey, call.msg, TRUE).found]_vars

\* ---- under SpecIds ----

\* C25: the id embedded in a 250 response is the msg_id generated for that message, the
\* same id the two storage keys are written under, the message_id of the stored
\* metadata and the id shown in the notification; a 451 response embeds the text of the
\* error that caused it.
ThmC25 ==
    \A m \in IdMsgs :
       LET f == idFrame[m] IN
          /\ (f.answer /= <<>> /\ f.answer[1] = "250") =>
                /\ f.msg_id /= <<>>
                /\ f.answer[2] = f.msg_id
                /\ metadata[m].message_id = f.msg_id
                /\ storeRet[m] = "True" =>
                      /\ f.msg_id \in DOMAIN emailKeys
                      /\ JsonLoads(emailKeys[f.msg_id].meta).message_id = f.msg_id
                /\ SendCalled(route[m]) => f.shown = f.msg_id
          /\ (f.answer /= <<>> /\ f.answer[1] = "451") =>
                /\ ~inbox[m].ok
                /\ f.answer[2] = ErrorText(inbox[m])
          /\ resp[m] /= None <=> f.answer /= <<>>
          /\ f.answer /= <<>> => f.answer[1] = resp[m]

WitC25 ==
    \E m, k \in IdMsgs :
       /\ m /= k
       /\ resp[m] = "250" /\ storeRet[m] = "True"
       /\ idFrame[m].answer = <<"250", idFrame[m].msg_id>>
       /\ idFrame[m].shown = idFrame[m].msg_id
       /\ idFrame[k].msg_id /= <<>> /\ idFrame[k].msg_id /= idFrame[m].msg_id
       /\ resp[k] = "451"

\* C29 (as stated): no two ingested messages are ever assigned the same message_id.
CexC29 ==
    \A m, k \in IdMsgs :
       (m /= k /\ idFrame[m].msg_id /= <<>> /\ idFrame[k].msg_id /= <<>>) =>
          idFrame[m].msg_id /= idFrame[k].msg_id

\* C29 (amended): two messages ingested in different clock seconds never get the same
\* message_id; two messages of the same second get the same id exactly when uuid4 gives
\* both the same suffix. The keys of a stored message hold what was stored for it as long
\* as no other message with its id was stored: a store_email call replaces the keys of an
\* earlier message only if both were given the same id.
ThmC29 ==
    \A m \in IdMsgs :
       LET f == idFrame[m]
           own == [raw |-> PickleDumps(inbox[m].raw), meta |-> JsonDumps(metadata[m])]
       IN  /\ \A k \in IdMsgs :
                 (k /= m /\ f.msg_id /= <<>> /\ idFrame[k].msg_id /= <<>>) =>
                    /\ f.at /= idFrame[k].at => f.msg_id /= idFrame[k].msg_id
                    /\ f.msg_id = idFrame[k].msg_id <=>
                          (f.at = idFrame[k].at /\ f.msg_id[2] = idFrame[k].msg_id[2])
           /\ storeRet[m] = "True" =>
                 /\ f.msg_id \in DOMAIN emailKeys
                 /\ emailKeys[f.msg_id] /= own =>
                       \E k \in IdMsgs :
                          /\ k /= m /\ idFrame[k].msg_id = f.msg_id
                          /\ storeRet[k] = "True"

WitC29 ==
    \E m, k \in IdMsgs :
       /\ m /= k
       /\ storeRet[m] = "True" /\ storeRet[k] = "True"
       /\ idFrame[m].at /= idFrame[k].at
       /\ idFrame[m].msg_id[2] = idFrame[k].msg_id[2]
       /\ emailKeys[idFrame[m].msg_id].raw = PickleDumps(inbox[m].raw)
       /\ emailKeys[idFrame[k].msg_id].raw = PickleDumps(inbox[k].raw)
       /\ inbox[m].raw /= inbox[k].raw

\* C34: with several messages in flight, the counter in the title of a message's
\* notification is the ordinal handle_message gave that message on arrival, so no two
\* notifications show the same counter and none shows the counter of a later message.
CexC34 ==
    \A m \in IdMsgs :
       idFrame[m].shown /= <<>> =>
          /\ idFrame[m].counter = m
          /\ \A k \in IdMsgs \ {m} :
                idFrame[k].shown /= <<>> => idFrame[k].counter /= idFrame[m].counter

\* ---- under SpecExtract ----

\* C26: for every DNS report the notification text has the DNS summary line: the ok badge
\* when has_mx is true, the warn badge when has_mx is false, with the number of MX
\* records.
CexC26 ==
    (text /= <<>> /\ "has_mx" \in DOMAIN extracted.dns_report) =>
       \E i \in 1..Len(text) :
          /\ text[i][1] = "dns"
          /\ text[i][2] = IF extracted.dns_report.has_mx THEN "ok" ELSE "warn"
          /\ text[i][3] = extracted.dns_report.mx_records

\* C27: for every To value the extracted recipient_domain is the lower-cased substring
\* after the first '@' (all of it, further '@' included; blanks around it aside), and
\* unknown when there is no '@', as for a message without a To header.
CexC27 ==
    extracted /= NoExtract =>
       LET to == Get(email, "To", <<"">>) IN
          IF Len(to) >= 2
          THEN <<extracted.recipient_domain>> =
                  [i \in 1..(Len(to) - 1) |-> Lower(Strip(to[i + 1]))]
          ELSE extracted.recipient_domain = "unknown"

\* C28: the headers field of the extracted metadata holds every header of the message
\* as a name-value pair in the original order, two headers of the same name included.
CexC28 == extracted /= NoExtract => extracted.headers = email.headers

\* ---- under SpecIndex ----

\* whether no other message was given the message id of m
OwnId(m) == \A k \in Msgs \ {m} : idFrame[k].msg_id /= idFrame[m].msg_id

\* C30 as stated: every message store_email returned True for is a member of exactly
\* one domain set, the one of its metadata's recipient_domain (the set unknown for a To
\* header without '@'), and every record that search_emails(domain = d) returns has
\* recipient_domain d.
CexC30 ==
    [][/\ \A m \in Msgs :
             storeRet'[m] = "True" =>
                LET d == metadata'[m].recipient_domain IN
                   /\ d \in DOMAIN domainIndex'
                   /\ \A e \in DOMAIN domainIndex' :
                         idFrame'[m].msg_id \in domainIndex'[e] <=> e = d
       /\ (reply'.op = "search" /\ reply' /= reply /\ reply'.args[1] /= None) =>
             \A i \in 1..Len(reply'.ids) :
                RetrieveEmail(rawKey, metaKey, reply'.ids[i], TRUE).metadata.recipient_domain
                   = reply'.args[1]]_vars

\* C30: every message store_email returned True for is a member of the domain set of
\* its metadata's recipient_domain (the set unknown for a To header without '@'), and
\* every record that search_emails(domain = d) returns is that of a stored message whose
\* id is in the set of d; a message whose id no other message was given is a member of
\* no other domain set, and a returned record with such an id has recipient_domain d.
ThmC30 ==
    [][/\ \A m \in Msgs :
             storeRet'[m] = "True" =>
                LET d == metadata'[m].recipient_domain IN
                   /\ d = ExtractDomain(inbox'[m].to)
                   /\ d \in DOMAIN domainIndex'
                   /\ idFrame'[m].msg_id \in domainIndex'[d]
                   /\ OwnId(m) =>
                         \A e \in DOMAIN domainIndex' :
                            idFrame'[m].msg_id \in domainIndex'[e] => e = d
       /\ (reply'.op = "search" /\ reply' /= reply /\ reply'.args[1] /= None) =>
             \A i \in 1..Len(reply'.ids) :
                LET r == RetrieveEmail(rawKey, metaKey, reply'.ids[i], TRUE) IN
                   /\ r.found
                   /\ reply'.ids[i] \in domainIndex[reply'.args[1]]
                   /\ (\A m \in Msgs : idFrame[m].msg_id = reply'.ids[i] => OwnId(m)) =>
                         r.metadata.recipient_domain = reply'.args[1]]_vars

WitC30 ==
    /\ \A m \in Msgs : OwnId(m)
    /\ reply.op = "search" /\ reply.args[1] = "unknown"
    /\ Len(reply.ids) = 1
    /\ \E m \in Msgs : /\ idFrame[m].msg_id = reply.ids[1]
                       /\ metadata[m].to = <<"nobody">>
                       /\ storeRet[m] = "True"
    /\ "x.com" \in DOMAIN domainIndex
    /\ \E m \in Msgs : /\ idFrame[m].msg_id \in domainIndex["x.com"]
                       /\ storeRet[m] = "True"
                       /\ rawKey[idFrame[m].msg_id] = <<>>

\* ---- under SpecConn ----

ThmC32 ==
    /\ <>[](\A m \in Msgs : pc[m] \in {"idle", "done"})
    /\ [](\A m \in Msgs :
            /\ pc[m] = "done" <=> resp[m] \in {"250", "451"}
            /\ pc[m] /= "done" <=> resp[m] = None
            /\ (pc[m] = "done" /\ inbox[m].ok) => resp[m] = "250")
    /\ [][\A m \in Msgs : resp[m] /= None => resp'[m] = resp[m]]_vars

WitC32 ==
    \E m \in Msgs :
       /\ pc[m] = "done" /\ resp[m] = "250"
       /\ "error" \in DOMAIN metadata[m].dns_report
       /\ storeRet[m] = "False"
       /\ notif[m] = "failed"
       /\ prov[m] \in {"raised", "error"}

\* ---- under SpecRace ----

\* C33: the routing configuration changes only through /set_target: a step of
\* handle_message, whatever its outcome, leaves target_mapping and default_recipients
\* as they are; /set_target custom leaves default_recipients (the active target) as it
\* is; /set_target me, channel and group leave target_mapping as it is.
ThmC33 ==
    [][/\ pc' /= pc => UNCHANGED <<default_recipients, target_mapping>>
       /\ \A cmd \in RaceCmds, ok \in BOOLEAN :
             SetTarget(cmd, ok) =>
                /\ Lower(cmd.type) = "custom" => UNCHANGED <<default_recipients, lastTarget>>
                /\ Lower(cmd.type) /= "custom" => UNCHANGED target_mapping]_vars

WitC33 ==
    /\ "x.com" \in DOMAIN target_mapping
    /\ default_recipients.group = "222"
    /\ \E m \in Msgs : resp[m] = "250" /\ route[m][1] = "custom"

\* ---- under SpecSweep ----

\* whether retrieve_email finds id
Live(id) == RetrieveEmail(rawKey, metaKey, id, TRUE).found

\* C36 (as stated): the sweep never removes the recency-index entry of a record whose
\* raw and metadata keys are live: in every state every retrievable record is in
\* index:timestamp.
CexC36 == \A id \in Msgs : Live(id) => id \in DOMAIN tsIndex

\* C36 (amended): the sweep removes an entry only once message_ttl has passed since
\* its score was taken: a retrievable record is in index:timestamp, with that score,
\* unless its score is message_ttl old, which it is only for as long as its batch was
\* executed after the score was taken; a record whose batch ran at the time of its
\* score is in the index as long as it is retrievable.
ThmC36 ==
    \A id \in Msgs :
       Live(id) =>
          /\ (id \in DOMAIN tsIndex /\ tsIndex[id] = idFrame[id].at)
                \/ (idFrame[id].at + message_ttl <= now /\ idFrame[id].at < storedAt[id])
          /\ idFrame[id].at = storedAt[id] => id \in DOMAIN tsIndex

WitC36 ==
    \E a, b \in Msgs :
       /\ Live(a) /\ a \in DOMAIN tsIndex /\ idFrame[a].at < storedAt[a]
       /\ storedAt[b] >= 0 /\ ~Live(b) /\ b \notin DOMAIN tsIndex
       /\ swept = "ran"

\* ---- under SpecResolve, the mapping keys as the commands stored them ----

\* C38: once /set_target custom D=id has completed, a message whose To address has
\* domain D, letter case disregarded, is routed to custom:id: the key the command stored
\* and the lower-cased recipient_domain that _determine_recipient looks up agree.
CexC38 ==
    \A m \in Msgs :
       pc[m] = "notify" =>
          \A D \in DOMAIN target_mapping :
             (/\ Len(inbox[m].to) = 2
              /\ Lower(D) = Lower(inbox[m].to[2])
              /\ \A E \in DOMAIN target_mapping : Lower(E) = Lower(D) => E = D)
                => route[m] = <<"custom", target_mapping[D]>>

\* ---- under SpecCmd ----

\* C37: a /set_target command that fails or is malformed leaves default_recipients and
\* target_mapping exactly as they were: no arguments, a channel or group command with
\* no id or whose chat lookup raises, a custom command with no argument or no '=' in it,
\* an unknown target type.
ThmC37 ==
    [][LET c == cmdReply'.cmd
           t == Lower(c.type)
           failing ==
              \/ c.n = 0
              \/ t \in {"channel", "group"} /\ (c.n < 2 \/ ~cmdReply'.chatOk)
              \/ t = "custom" /\ (c.n < 2 \/ ~c.eq)
              \/ t \notin {"me", "channel", "group", "custom"}
       IN  failing =>
              /\ UNCHANGED <<default_recipients, target_mapping>>
              /\ cmdReply'.text \in {"usage", "need_id", "error", "format", "unknown"}]_vars

WitC37 ==
    /\ cmdReply.text = "error"
    /\ cmdReply.cmd.type = "channel" /\ cmdReply.cmd.key = "111" /\ ~cmdReply.chatOk
    /\ default_recipients.group = "222"
    /\ "x.com" \in DOMAIN target_mapping

\* ---- under SpecLife ----

\* C39: shutdown releases each initialised component exactly once: over any sequence
\* of shutdown calls, the one from a failed initialize_components followed by the one
\* of run's finally block included, no component gets a second release call, and at
\* exit every component that was set has got its release call, even when the release
\* of an earlier one raised.
CexC39 ==
    /\ \A c \in ComponentSet : released[c] <= 1
    /\ lifePc = "exited" =>
          \A c \in ComponentSet : app[c] /= None => released[c] = 1

\* ---- under SpecSearch (continued) ----

\* C40: search_emails returns fewer than limit records only when no further live
\* record exists in the queried index: with no read raising, the number of records is
\* limit when the domain set, or the recency index from offset onward, holds at least
\* limit ids whose keys are live, and the number of those ids otherwise, whatever other
\* ids of that index have expired.
CexC40 ==
    (reply.op = "search" /\ reply.ok /\ reply.args[4] = {}) =>
       LET domain == reply.args[1]
           limit == reply.args[2]
           offset == reply.args[3]
           above(x) == Cardinality({y \in DOMAIN tsIndex :
                                       \/ tsIndex[y] > tsIndex[x]
                                       \/ (tsIndex[y] = tsIndex[x] /\ y > x)})
           queried == IF domain = None THEN {x \in DOMAIN tsIndex : above(x) >= offset}
                      ELSE IF domain \in DOMAIN domainIndex THEN domainIndex[domain]
                      ELSE {}
           alive == Cardinality({x \in queried : rawKey[x] /= <<>> /\ metaKey[x] /= <<>>})
       IN  Len(reply.ids) = IF alive < limit THEN alive ELSE limit

====
